---- MODULE Spec2Model ----
(***************************************************************************)
(* Statement grouping and ranking of indra.util.statement_presentation:    *)
(* key derivation (_get_keyed_stmts), aggregation and ranking              *)
(* (group_and_sort_statements), and the statement-list transformations of  *)
(* indra.tools.assemble_corpus that feed it.                               *)
(*                                                                         *)
(* A name is a string.  An agent is a name, or NoAgent for Python's None.  *)
(* A statement is a record; a list position in stmt_list stands for the    *)
(* identity of the statement object at that position.                      *)
(*                                                                         *)
(* Python values that end up inside grouping keys are heterogeneous (str,  *)
(* tuple of str, bool).  Each is encoded as a sequence of strings whose    *)
(* first entry is the Python type: <<"s", x>> for the str x,               *)
(* <<"t", x1, ..., xn>> for the tuple (x1, ..., xn) and <<"b", "True">> or *)
(* <<"b", "False">> for a bool.                                            *)
(***************************************************************************)
EXTENDS Integers, Sequences, FiniteSets, TLC

VARIABLES
    stmt_list,      \* the argument of the call: a sequence of statements
    pc,             \* "idle", "run", "done" (returned) or "TypeError" (raised);
                    \* in a pipeline "pipeline" (it holds a list), the
                    \* exception a transformation raised, or "None" (a
                    \* transformation returned None)
    cursor,         \* position in stmt_list of the statement the loop takes next
    keyed,          \* the (key, s) pairs collected from _get_keyed_stmts
    stmt_rows,      \* dict key -> list of statements, as rows in insertion order
    stmt_counts,    \* dict key -> evidence weight
    arg_counts,     \* dict role tuple -> evidence weight
    sorted_groups,  \* the returned list
    ev_totals,      \* the argument ev_totals of the call
    simple_stmts,   \* the statements make_stmt_from_sort_key made, one per key
    heap,           \* the Statement objects of a pipeline: heap[id] is the object id
    corpus,         \* the list of objects (ids) a pipeline holds: its input list,
                    \* then the list the last transformation returned
    last,           \* the last call of a transformation: its name, options,
                    \* argument and result
    caller_whitelist, \* the whitelist dict the caller of the pipeline holds
                    \* (None: it holds none)
    pickle_file,    \* the file a transformation dumps its result into (save)
    stmts1,         \* the first argument of align_statements
    stmts2,         \* the second argument of align_statements
    matches,        \* the list align_statements returns
    tag_info_list,  \* the list of spans handed to tag_text, which changes it
    format_text     \* the text tag_text returns

\* The state of group_and_sort_statements and of the key functions.
grouping_vars == <<stmt_list, pc, cursor, keyed, stmt_rows, stmt_counts,
                   arg_counts, sorted_groups, ev_totals, simple_stmts>>

\* The state of a pipeline of transformations.
pipeline_vars == <<heap, corpus, last, caller_whitelist, pickle_file>>

\* The state of align_statements and of tag_text.
utility_vars == <<stmts1, stmts2, matches, tag_info_list, format_text>>

vars == <<grouping_vars, pipeline_vars, utility_vars>>

(* ------------------------------ bounds --------------------------------- *)

\* Longest statement list handed to group_and_sort_statements.
MaxStmts == 2

\* Largest number of distinct participant names of a Complex in SpecKeys.
MaxKeyNames == 6

(* ------------------------------ strings -------------------------------- *)

\* Every string of the model, in ascending order of Python's str comparison
\* (by code point: upper case before lower case, a prefix before its
\* extensions).
StrOrder ==
    << "A", "Activation", "ActiveForm", "B", "C", "Complex", "Conversion",
       "D", "E", "F", "False", "G", "H", "HasActivity", "None",
       "Phosphorylation", "True", "kinase" >>

StrRank(s) == CHOOSE i \in 1..Len(StrOrder) : StrOrder[i] = s

\* Python: a < b for two str.
StrLT(a, b) == StrRank(a) < StrRank(b)

(* ----------------------------- statements ------------------------------ *)

NoAgent == "<None>"

Stmt(type, ags, obj_from, obj_to, activity, flag, ev) ==
    [type |-> type, ags |-> ags, obj_from |-> obj_from, obj_to |-> obj_to,
     activity |-> activity, flag |-> flag, ev |-> ev]

Complex(members, ev) == Stmt("Complex", members, <<>>, <<>>, "", FALSE, ev)

Conversion(subj, obj_from, obj_to, ev) ==
    Stmt("Conversion", <<subj>>, obj_from, obj_to, "", FALSE, ev)

ActiveForm(agent, activity, is_active, ev) ==
    Stmt("ActiveForm", <<agent>>, <<>>, <<>>, activity, is_active, ev)

HasActivity(agent, activity, has_activity, ev) ==
    Stmt("HasActivity", <<agent>>, <<>>, <<>>, activity, has_activity, ev)

Phosphorylation(enz, sub, ev) ==
    Stmt("Phosphorylation", <<enz, sub>>, <<>>, <<>>, "", FALSE, ev)

Activation(subj, obj, ev) ==
    Stmt("Activation", <<subj, obj>>, <<>>, <<>>, "", FALSE, ev)

\* A statement of a class that is none of the variants the key deriver and
\* the key inverter know by name or by shape: its agent list has three agents.
Other(ags, ev) == Stmt("Other", ags, <<>>, <<>>, "", FALSE, ev)

\* s.agent_list()
agent_list(s) ==
    IF s.type = "Conversion" THEN s.ags \o s.obj_from \o s.obj_to ELSE s.ags

Range(f) == {f[i] : i \in DOMAIN f}

(* --------------------------- key derivation ---------------------------- *)

\* name(agent) of _get_keyed_stmts
name(agent) == IF agent = NoAgent THEN "None" ELSE agent

PyStr(x) == <<"s", x>>
PyTuple(xs) == <<"t">> \o xs
PyBool(b) == <<"b", IF b THEN "True" ELSE "False">>

\* sorted(S) for a set S of str: the ascending sequence of its elements.
RECURSIVE sorted_names(_)
sorted_names(S) ==
    IF S = {} THEN <<>>
    ELSE LET m == CHOOSE x \in S : \A y \in S : ~StrLT(y, x)
         IN <<m>> \o sorted_names(S \ {m})

\* The orders in which iterating the set S can deliver its elements.
IterOrders(S) ==
    {f \in [1..Cardinality(S) -> S] : \A i, j \in DOMAIN f : f[i] = f[j] => i = j}

\* itertools.permutations(order, 2): the ordered pairs of distinct positions,
\* in lexicographic order of the positions.
permutations2(order) ==
    LET n == Len(order)
    IN [k \in 1..(n * (n - 1)) |->
          LET i == ((k - 1) \div (n - 1)) + 1
              jj == ((k - 1) % (n - 1)) + 1
              j == IF jj < i THEN jj ELSE jj + 1
          IN <<order[i], order[j]>>]

Key(verb, inps) == [verb |-> verb, inps |-> inps]

\* The participant-name set ag_ns of a statement.
ag_ns_of(s) == {name(ag) : ag \in Range(agent_list(s))}

\* Whether a Complex with n distinct participant names yields its pair keys
\* (if 1 < len(ag_ns) < 6).
has_pairs_upto6(n) == 1 < n /\ n <= 6
has_pairs(n) == 1 < n /\ n < 6

\* Whether a Complex with n distinct participant names yields its full key
\* (if len(ag_ns) == 2: continue).
has_full_key(n) == n # 2

\* The key of a Conversion.
conversion_key_listed(s) ==
    Key("Conversion",
        <<PyStr(name(s.ags[1])),
          PyTuple([i \in DOMAIN s.obj_from |-> name(s.obj_from[i])]),
          PyTuple([i \in DOMAIN s.obj_to |-> name(s.obj_to[i])])>>)
conversion_key(s) ==
    LET subj == name(s.ags[1])
        objs_from == {name(ag) : ag \in Range(s.obj_from)}
        objs_to == {name(ag) : ag \in Range(s.obj_to)}
    IN Key("Conversion",
           <<PyStr(subj), PyTuple(sorted_names(objs_from)),
             PyTuple(sorted_names(objs_to))>>)

\* The keys _get_keyed_stmts yields for the statement s, in the order it yields
\* them; order is the iteration order of the name set ag_ns (used by Complex).
get_keyed_stmts(s, order) ==
    LET verb == s.type
        ags == agent_list(s)
    IN IF verb = "Complex" THEN
           LET ag_ns == ag_ns_of(s)
               n == Cardinality(ag_ns)
               perms == permutations2(order)
               pairs == IF has_pairs(n)
                        THEN [k \in DOMAIN perms |->
                                Key(verb, <<PyStr(perms[k][1]), PyStr(perms[k][2])>>)]
                        ELSE <<>>
               srt == sorted_names(ag_ns)
           IN IF has_full_key(n)
              THEN pairs \o <<Key(verb, [i \in DOMAIN srt |-> PyStr(srt[i])])>>
              ELSE pairs
       ELSE IF verb = "Conversion" THEN
           <<conversion_key(s)>>
       ELSE IF verb \in {"ActiveForm", "HasActivity"} THEN
           <<Key(verb, <<PyStr(name(ags[1])), PyStr(s.activity), PyBool(s.flag)>>)>>
       ELSE
           <<Key(verb, [i \in DOMAIN ags |-> PyStr(name(ags[i]))])>>

(* ----------------------------- aggregation ----------------------------- *)

\* stmt.get_hash(): the fingerprint of a statement, taken over its type and
\* its agents and attributes, not over its evidence; statements of different
\* content have different fingerprints.
get_hash(s) == [s EXCEPT !.ev = 0]

\* The argument ev_totals: None, or a dict from fingerprints to counts.
None == [given |-> FALSE, map |-> <<>>]
Totals(map) == [given |-> TRUE, map |-> map]

\* _count(stmt): the evidence weight of a statement: len(stmt.evidence) when
\* ev_totals is None or lacks the fingerprint, ev_totals[sh] otherwise.
count_no_fallback(s) ==
    LET sh == get_hash(s)
    IN IF ~ev_totals.given THEN s.ev
       ELSE IF sh \notin DOMAIN ev_totals.map THEN 0
       ELSE ev_totals.map[sh]
count(s) ==
    LET sh == get_hash(s)
    IN IF ~ev_totals.given \/ sh \notin DOMAIN ev_totals.map
       THEN s.ev
       ELSE ev_totals.map[sh]

\* d[k] of a defaultdict(lambda: 0) held as a function.
Get(d, k) == IF k \in DOMAIN d THEN d[k] ELSE 0

\* d[k] += v of a defaultdict(lambda: 0).
Add(d, k, v) == (k :> (Get(d, k) + v)) @@ d

\* The position of key in the dict stmt_rows (a sequence of rows in
\* insertion order), 0 when it has no row.
RowIndex(rows, key) ==
    IF \E i \in DOMAIN rows : rows[i].key = key
    THEN CHOOSE i \in DOMAIN rows : rows[i].key = key
    ELSE 0

\* stmt_rows[key].append(s) of a defaultdict(list).
Append_row(rows, key, s) ==
    LET i == RowIndex(rows, key)
    IN IF i = 0 THEN Append(rows, [key |-> key, stmts |-> <<s>>])
       ELSE [rows EXCEPT ![i].stmts = Append(@, s)]

\* The (subj, obj) role tuples a Conversion key lends weight to, one per
\* entry of key[2] + key[3] (an entry in both tuples is listed twice).
conversion_pairs_inputs_only(key) ==
    LET subj == key.inps[1]
        objs == Tail(key.inps[2])
    IN [i \in DOMAIN objs |-> <<subj, PyStr(objs[i])>>]
conversion_pairs(key) ==
    LET subj == key.inps[1]
        objs == Tail(key.inps[2]) \o Tail(key.inps[3])
    IN [i \in DOMAIN objs |-> <<subj, PyStr(objs[i])>>]

RECURSIVE add_all(_, _, _)
add_all(d, ks, v) ==
    IF ks = <<>> THEN d ELSE add_all(Add(d, Head(ks), v), Tail(ks), v)

\* arg_counts after the loop body for (key, s).
arg_counts_after(d, key, s) ==
    IF key.verb = "Conversion"
    THEN add_all(d, conversion_pairs(key), count(s))
    ELSE Add(d, key.inps, count(s))

\* The loop body of group_and_sort_statements for one yielded (key, s):
\* d holds the three dicts.
loop_body(stmts, d, key, s) ==
    [rows |-> Append_row(d.rows, key, s),
     s_counts |-> Add(d.s_counts, key, count(stmts[s])),
     a_counts |-> arg_counts_after(d.a_counts, key, stmts[s])]

\* The loop body run for each of the yielded pairs, in order.
RECURSIVE loop(_, _, _)
loop(stmts, pairs, d) ==
    IF pairs = <<>> THEN d
    ELSE loop(stmts, Tail(pairs), loop_body(stmts, d, Head(pairs).key, Head(pairs).s))

(* ------------------------------- ranking ------------------------------- *)

\* The results of a Python comparison x < y: "true", "false", or TypeError
\* when the operand types do not support it.
TypeError == "TypeError"

Bool3(b) == IF b THEN "true" ELSE "false"

\* The first position at which the sequences x and y differ (by ==), 0 when
\* one is a prefix of the other.
RECURSIVE first_diff(_, _, _)
first_diff(x, y, i) ==
    IF i > Len(x) \/ i > Len(y) THEN 0
    ELSE IF x[i] # y[i] THEN i
    ELSE first_diff(x, y, i + 1)

\* Python: x < y for two tuples of str (or two str-encoded values of the
\* same type), held as sequences of strings.
StrTupleLT(x, y) ==
    LET i == first_diff(x, y, 1)
    IN IF i = 0 THEN Len(x) < Len(y) ELSE StrLT(x[i], y[i])

\* Python: a < b for two unequal entries of a role tuple: str with str,
\* tuple with tuple and bool with bool are ordered, any other pairing raises.
AtomLT(a, b) ==
    IF a[1] # b[1] THEN TypeError
    ELSE Bool3(StrTupleLT(Tail(a), Tail(b)))

\* Python: x < y for two role tuples: decided by the first differing entry.
RoleLT(x, y) ==
    LET i == first_diff(x, y, 1)
    IN IF i = 0 THEN Bool3(Len(x) < Len(y)) ELSE AtomLT(x[i], y[i])

\* Python: k1 < k2 for two sort keys (arg_count, inps, sub_count, verb).
SortKeyLT_verb_ascending(k1, k2) ==
    IF k1.arg_count # k2.arg_count THEN Bool3(k1.arg_count < k2.arg_count)
    ELSE IF k1.inps # k2.inps THEN RoleLT(k1.inps, k2.inps)
    ELSE IF k1.sub_count # k2.sub_count THEN Bool3(k1.sub_count < k2.sub_count)
    ELSE Bool3(StrLT(k2.verb, k1.verb))
SortKeyLT(k1, k2) ==
    IF k1.arg_count # k2.arg_count THEN Bool3(k1.arg_count < k2.arg_count)
    ELSE IF k1.inps # k2.inps THEN RoleLT(k1.inps, k2.inps)
    ELSE IF k1.sub_count # k2.sub_count THEN Bool3(k1.sub_count < k2.sub_count)
    ELSE Bool3(StrLT(k1.verb, k2.verb))

\* The float w + 1/(1+k) held exactly, as the fraction num/den.
Float(num, den) == [num |-> num, den |-> den]

\* Python: x < y for two sort keys of one sorted() call: two floats (member
\* sort) or two tuples (arg_count, inps, sub_count, verb) (group sort).
PyLT(x, y) ==
    IF "num" \in DOMAIN x
    THEN Bool3(x.num * y.den < y.num * x.den)
    ELSE SortKeyLT(x, y)

Reverse(a) == [i \in DOMAIN a |-> a[Len(a) + 1 - i]]

\* list.sort works on entries [key, val], the keys computed beforehand.
\* count_run on a (len(a) >= 2): the length of the run a[1..n] that is
\* ascending, or strictly descending when descending; 0 when a comparison
\* raised.
RECURSIVE run_length(_, _, _)
run_length(a, i, descending) ==
    IF i > Len(a) THEN i - 1
    ELSE LET c == PyLT(a[i].key, a[i - 1].key)
         IN IF c = TypeError THEN 0
            ELSE IF (c = "true") = descending
                 THEN run_length(a, i + 1, descending)
                 ELSE i - 1

\* <<length of the first run, whether it is descending>>.
count_run(a) ==
    LET c == PyLT(a[2].key, a[1].key)
    IN IF c = TypeError THEN <<0, FALSE>>
       ELSE <<run_length(a, 3, c = "true"), c = "true">>

\* binarysort's search for the slot of pivot in the sorted a[l..r-1]
\* (0 when a comparison raised).
RECURSIVE bisect(_, _, _, _)
bisect(a, pivot, l, r) ==
    IF l >= r THEN l
    ELSE LET p == l + ((r - l) \div 2)
             c == PyLT(pivot.key, a[p].key)
         IN IF c = TypeError THEN 0
            ELSE IF c = "true" THEN bisect(a, pivot, l, p)
            ELSE bisect(a, pivot, p + 1, r)

\* The outcome of a sort: the list, or raised = TRUE when a comparison raised.
Sorted(a) == [raised |-> FALSE, list |-> a]
Raised == [raised |-> TRUE, list |-> <<>>]

\* binarysort: a[1..start-1] is sorted; insert a[start], a[start+1], ...
RECURSIVE binarysort(_, _)
binarysort(a, start) ==
    IF start > Len(a) THEN Sorted(a)
    ELSE LET l == bisect(a, a[start], 1, start)
         IN IF l = 0 THEN Raised
            ELSE binarysort([i \in DOMAIN a |->
                                IF i < l \/ i > start THEN a[i]
                                ELSE IF i = l THEN a[start]
                                ELSE a[i - 1]],
                            start + 1)

\* list.sort() of a list shorter than 64: one run, extended by binary
\* insertion.
listsort(a) ==
    IF Len(a) < 2 THEN Sorted(a)
    ELSE LET run == count_run(a)
             n == run[1]
         IN IF n = 0 THEN Raised
            ELSE binarysort(IF run[2]
                            THEN [i \in DOMAIN a |-> IF i <= n THEN a[n + 1 - i] ELSE a[i]]
                            ELSE a,
                            n + 1)

\* The values of the sorted entries.
Values(r) == [raised |-> r.raised, list |-> [i \in DOMAIN r.list |-> r.list[i].val]]

\* sorted(vals, key=..., reverse=True), a the entries [key, val]: the list is
\* reversed, sorted ascending and reversed again, which keeps equal elements
\* in their original order.
sorted_reverse(a) ==
    LET r == listsort(Reverse(a))
    IN IF r.raised THEN Raised ELSE Values(Sorted(Reverse(r.list)))

\* The member sort key _count(s) + 1/(1+len(s.agent_list())).
member_key_count_only(s) == Float(count(s), 1)
member_key(s) ==
    LET k == 1 + Len(agent_list(s))
    IN Float(count(s) * k + 1, k)

\* The number of distinct participant names of the statement s
\* (len(set(ag.name for ag in s.agent_list()))), s a Complex: its members
\* are agents, never None.
n_names(s) == Cardinality(Range(agent_list(s)))

\* Whether process_rows skips the row (the suppression of derived pairs).
suppressed_members_2(stmts, row, s_counts, a_counts) ==
    /\ row.key.verb = "Complex"
    /\ Get(s_counts, row.key) = Get(a_counts, row.key.inps)
    /\ Len(row.key.inps) <= 2
    /\ \A k \in DOMAIN row.stmts : n_names(stmts[row.stmts[k]]) >= 2
suppressed_any_weight(stmts, row, s_counts, a_counts) ==
    /\ row.key.verb = "Complex"
    /\ Len(row.key.inps) <= 2
    /\ \A k \in DOMAIN row.stmts : n_names(stmts[row.stmts[k]]) > 2
suppressed_below_2(stmts, row, s_counts, a_counts) ==
    LET sub_count == Get(s_counts, row.key)
        arg_count == Get(a_counts, row.key.inps)
    IN /\ row.key.verb = "Complex"
       /\ sub_count = arg_count
       /\ Len(row.key.inps) < 2
       /\ \A k \in DOMAIN row.stmts : n_names(stmts[row.stmts[k]]) > 2
suppressed_any_length(stmts, row, s_counts, a_counts) ==
    /\ row.key.verb = "Complex"
    /\ Get(s_counts, row.key) = Get(a_counts, row.key.inps)
    /\ \A k \in DOMAIN row.stmts : n_names(stmts[row.stmts[k]]) > 2
suppressed(stmts, row, s_counts, a_counts) ==
    LET sub_count == Get(s_counts, row.key)
        arg_count == Get(a_counts, row.key.inps)
    IN /\ row.key.verb = "Complex"
       /\ sub_count = arg_count
       /\ Len(row.key.inps) <= 2
       /\ \A k \in DOMAIN row.stmts : n_names(stmts[row.stmts[k]]) > 2

\* The rows process_rows yields for the dict rows, in dict order; members
\* are positions of stmts (the statement list).
process_rows(stmts, rows, s_counts, a_counts) ==
    LET kept == SelectSeq(rows, LAMBDA r : ~suppressed(stmts, r, s_counts, a_counts))
        members(row) ==
            [k \in DOMAIN row.stmts |->
                [key |-> member_key(stmts[row.stmts[k]]), val |-> row.stmts[k]]]
    IN [i \in DOMAIN kept |->
          [new_key |-> [arg_count |-> Get(a_counts, kept[i].key.inps),
                        inps |-> kept[i].key.inps,
                        sub_count |-> Get(s_counts, kept[i].key),
                        verb |-> kept[i].key.verb],
           verb |-> kept[i].key.verb,
           stmts |-> sorted_reverse(members(kept[i])).list]]

\* The entries [key, val] of sorted(groups, key=lambda tpl: tpl[0]).
by_new_key(groups) ==
    [i \in DOMAIN groups |-> [key |-> groups[i].new_key, val |-> groups[i]]]

\* sorted(process_rows(stmt_rows), key=lambda tpl: tpl[0], reverse=True)
rank_ascending(groups) == Values(listsort(by_new_key(groups)))
rank_dict_order(groups) == Values(Sorted(by_new_key(groups)))
rank(groups) == sorted_reverse(by_new_key(groups))

(* ----------------------------- key inverter ---------------------------- *)

\* make_agent(name) of make_stmt_from_sort_key.
make_agent(nm) == IF nm = "None" THEN NoAgent ELSE nm

\* The agents make_agent makes for the entries of a key (each a str).
make_agents(entries) == [i \in DOMAIN entries |-> make_agent(entries[i][2])]

\* The sort key (arg_count, inps, sub_count, verb) of a group of the key.
sort_key(key, arg_count, sub_count) ==
    [arg_count |-> arg_count, inps |-> key.inps, sub_count |-> sub_count,
     verb |-> key.verb]

\* make_stmt_from_sort_key(key, verb), key a sort key: a statement of the
\* class named verb, without evidence, made from inps = list(key[1]).
make_stmt_is_active(key, verb) ==
    LET inps == key.inps
    IN IF verb = "Complex" THEN
           Complex(make_agents(inps), 0)
       ELSE IF verb = "Conversion" THEN
           Conversion(make_agent(inps[1][2]),
                      [i \in 1..(Len(inps[2]) - 1) |-> make_agent(inps[2][i + 1])],
                      [i \in 1..(Len(inps[3]) - 1) |-> make_agent(inps[3][i + 1])],
                      0)
       ELSE IF verb \in {"ActiveForm", "HasActivity"} THEN
           Stmt(verb, <<make_agent(inps[1][2])>>, <<>>, <<>>, inps[2][2], TRUE, 0)
       ELSE
           Stmt(verb, make_agents(inps), <<>>, <<>>, "", FALSE, 0)
make_stmt_from_sort_key(key, verb) ==
    LET inps == key.inps
    IN IF verb = "Complex" THEN
           Complex(make_agents(inps), 0)
       ELSE IF verb = "Conversion" THEN
           Conversion(make_agent(inps[1][2]),
                      [i \in 1..(Len(inps[2]) - 1) |-> make_agent(inps[2][i + 1])],
                      [i \in 1..(Len(inps[3]) - 1) |-> make_agent(inps[3][i + 1])],
                      0)
       ELSE IF verb \in {"ActiveForm", "HasActivity"} THEN
           Stmt(verb, <<make_agent(inps[1][2])>>, <<>>, <<>>, inps[2][2],
                inps[3][2] = "True", 0)
       ELSE
           Stmt(verb, make_agents(inps), <<>>, <<>>, "", FALSE, 0)

(* ------------------------------- inputs -------------------------------- *)

\* The statements of the input lists of group_and_sort_statements, each with
\* its number of evidences: two Complexes that share the pair (A, B), two
\* Phosphorylations (one without enzyme), two Conversions (one that lists a
\* name twice) and one ActiveForm.
Universe ==
    { Complex(m, ev) : m \in {<<"A", "B">>, <<"A", "B", "C">>}, ev \in {0, 1, 2, 5} }
    \cup { Phosphorylation("A", "B", ev) : ev \in {0, 1, 2} }
    \cup { Phosphorylation(NoAgent, "B", 1) }
    \cup { Conversion("A", <<"B", "C">>, <<"D">>, ev) : ev \in {0, 1, 3} }
    \cup { Conversion("A", <<"B", "B">>, <<"B">>, 1) }
    \cup { ActiveForm("A", "kinase", TRUE, ev) : ev \in {0, 1} }

(* ------------------------------- actions ------------------------------- *)

\* No pipeline of transformations runs.
\* align_statements and tag_text are not running.
NoUtilities ==
    /\ stmts1 = <<>>
    /\ stmts2 = <<>>
    /\ matches = <<>>
    /\ tag_info_list = <<>>
    /\ format_text = <<>>

NoPipeline ==
    /\ heap = <<>>
    /\ corpus = <<>>
    /\ last = [f |-> "",
               kwargs |-> [belief_cutoff |-> 0, remove_bound |-> FALSE,
                           score_threshold |-> 0, whitelist |-> None],
               stmts_in |-> <<>>, stmts_out |-> <<>>]
    /\ caller_whitelist = None
    /\ pickle_file = [written |-> FALSE, stmts |-> <<>>]

Init ==
    /\ stmt_list = <<>>
    /\ pc = "idle"
    /\ cursor = 1
    /\ keyed = <<>>
    /\ stmt_rows = <<>>
    /\ stmt_counts = <<>>
    /\ arg_counts = <<>>
    /\ sorted_groups = <<>>
    /\ ev_totals = None
    /\ simple_stmts = <<>>
    /\ NoPipeline
    /\ NoUtilities

\* group_and_sort_statements(stmt_list) is called: the dicts are created.
Call ==
    /\ pc = "idle"
    /\ \E l \in UNION { [1..n -> Universe] : n \in 0..MaxStmts } : stmt_list' = l
    /\ pc' = "run"
    /\ cursor' = 1
    /\ stmt_rows' = <<>>
    /\ stmt_counts' = <<>>
    /\ arg_counts' = <<>>
    /\ sorted_groups' = <<>>
    /\ UNCHANGED <<keyed, ev_totals, simple_stmts>>
    /\ UNCHANGED <<pipeline_vars, utility_vars>>

\* The orders in which the name set of s may be iterated where that order
\* shows (permutations(ag_ns, 2) of a Complex); one order elsewhere.
SetOrders(s) ==
    LET ag_ns == ag_ns_of(s)
        n == Cardinality(ag_ns)
    IN IF s.type = "Complex" /\ 1 < n /\ n < 6
       THEN IterOrders(ag_ns)
       ELSE {sorted_names(ag_ns)}

\* The (key, s) pairs _get_keyed_stmts yields for the statement at position s
\* of stmts.
keyed_stmts(stmts, s, order) ==
    LET keys == get_keyed_stmts(stmts[s], order)
    IN [k \in DOMAIN keys |-> [key |-> keys[k], s |-> s]]

\* The (key, s) pairs the generator yields for the statements of stmts from
\* position i on, the name set of the statement at position j iterated in the
\* order orders[j].
RECURSIVE all_keyed_stmts(_, _, _)
all_keyed_stmts(stmts, orders, i) ==
    IF i > Len(stmts) THEN <<>>
    ELSE keyed_stmts(stmts, i, orders[i]) \o all_keyed_stmts(stmts, orders, i + 1)

\* group_and_sort_statements(stmts) as one function: the outcome of the call
\* (the returned list, or raised) when the name sets are iterated in the
\* orders given.
group_and_sort_statements(stmts, orders) ==
    LET d == loop(stmts, all_keyed_stmts(stmts, orders, 1),
                  [rows |-> <<>>, s_counts |-> <<>>, a_counts |-> <<>>])
    IN rank(process_rows(stmts, d.rows, d.s_counts, d.a_counts))

\* The loop of group_and_sort_statements takes the (key, s) pairs the
\* generator yields for the next statement of stmt_list, and runs its body
\* for each.
Accumulate ==
    /\ pc = "run"
    /\ cursor <= Len(stmt_list)
    /\ \E order \in SetOrders(stmt_list[cursor]) :
          LET d == loop(stmt_list, keyed_stmts(stmt_list, cursor, order),
                        [rows |-> stmt_rows, s_counts |-> stmt_counts,
                         a_counts |-> arg_counts])
          IN /\ stmt_rows' = d.rows
             /\ stmt_counts' = d.s_counts
             /\ arg_counts' = d.a_counts
    /\ cursor' = cursor + 1
    /\ UNCHANGED <<stmt_list, pc, keyed, sorted_groups, ev_totals, simple_stmts>>
    /\ UNCHANGED <<pipeline_vars, utility_vars>>

\* The generator is exhausted: the rows are processed and sorted, and the
\* call returns sorted_groups or raises TypeError.
Rank ==
    /\ pc = "run"
    /\ cursor > Len(stmt_list)
    /\ LET r == rank(process_rows(stmt_list, stmt_rows, stmt_counts, arg_counts))
       IN /\ pc' = IF r.raised THEN "TypeError" ELSE "done"
          /\ sorted_groups' = r.list
    /\ UNCHANGED <<stmt_list, cursor, keyed, stmt_rows, stmt_counts, arg_counts,
                   ev_totals, simple_stmts>>
    /\ UNCHANGED <<pipeline_vars, utility_vars>>

Next == Call \/ Accumulate \/ Rank

Spec == Init /\ [][Next]_vars

(* ------------------------- calls with ev_totals ------------------------ *)

\* The statements of the input lists of the calls that pass ev_totals: two
\* Complexes of the same content with different numbers of evidences, a
\* larger Complex and a Phosphorylation.
TotalsUniverse ==
    { Complex(<<"A", "B">>, 1), Complex(<<"A", "B">>, 3),
      Complex(<<"A", "B", "C">>, 5), Phosphorylation("A", "B", 2) }

\* The values of ev_totals: None, and every dict that maps some of the
\* fingerprints of the statements to 0 or 4 (the empty dict among them).
TotalsArgs ==
    LET hashes == {get_hash(s) : s \in TotalsUniverse}
    IN {None} \cup {Totals(m) : m \in UNION {[D -> {0, 4}] : D \in SUBSET hashes}}

\* group_and_sort_statements(stmt_list, ev_totals) is called.
CallTotals ==
    /\ pc = "idle"
    /\ \E l \in UNION { [1..n -> TotalsUniverse] : n \in 0..MaxStmts } : stmt_list' = l
    /\ \E e \in TotalsArgs : ev_totals' = e
    /\ pc' = "run"
    /\ cursor' = 1
    /\ stmt_rows' = <<>>
    /\ stmt_counts' = <<>>
    /\ arg_counts' = <<>>
    /\ sorted_groups' = <<>>
    /\ UNCHANGED <<keyed, simple_stmts>>
    /\ UNCHANGED <<pipeline_vars, utility_vars>>

SpecTotals == Init /\ [][CallTotals \/ Accumulate \/ Rank]_vars

(* -------------------------- key derivation alone ----------------------- *)

\* The names Complex members are drawn from in SpecKeys.
KeyNames == {<<"A", "B", "C", "D", "E", "F", "G", "H">>[i] : i \in 1..MaxKeyNames}

\* The sequences over S of length at most 2.
UpTo2(S) == {<<>>} \cup {<<x>> : x \in S} \cup {<<x, y>> : x, y \in S}

\* The statements whose keys SpecKeys derives: Complexes over every set of
\* names (also with one member listed twice), Conversions with up to two
\* inputs and outputs, the attribute-valued types and two default types,
\* with and without absent agents, and statements of a class outside these
\* variants.
KeyInputs ==
    { Complex(sorted_names(S), 1) : S \in SUBSET KeyNames }
    \cup { Complex(sorted_names(S) \o <<sorted_names(S)[1]>>, 1) :
             S \in (SUBSET KeyNames) \ {{}} }
    \cup { Conversion(subj, f, t, 1) :
             subj \in {"A", NoAgent}, f \in UpTo2({"B", "C"}), t \in UpTo2({"C", "D"}) }
    \cup { ActiveForm(a, "kinase", b, 1) : a \in {"A", NoAgent}, b \in BOOLEAN }
    \cup { HasActivity(a, "kinase", b, 1) : a \in {"A", NoAgent}, b \in BOOLEAN }
    \cup { Phosphorylation(e, s, 1) : e \in {"A", NoAgent}, s \in {"B", NoAgent} }
    \cup { Activation(e, s, 1) : e \in {"A", NoAgent}, s \in {"B", NoAgent} }
    \cup { Other(<<a, "B", "C">>, 1) : a \in {"A", NoAgent} }

InitKeys ==
    /\ stmt_list \in {<<s>> : s \in KeyInputs}
    /\ pc = "keys"
    /\ cursor = 1
    /\ keyed = <<>>
    /\ stmt_rows = <<>>
    /\ stmt_counts = <<>>
    /\ arg_counts = <<>>
    /\ sorted_groups = <<>>
    /\ ev_totals = None
    /\ simple_stmts = <<>>
    /\ NoPipeline
    /\ NoUtilities

\* list(_get_keyed_stmts(stmt_list)) for a list of one statement.
KeyStmts ==
    /\ pc = "keys"
    /\ \E order \in SetOrders(stmt_list[1]) :
          keyed' = keyed_stmts(stmt_list, 1, order)
    /\ pc' = "keyed"
    /\ cursor' = 2
    /\ UNCHANGED <<stmt_list, stmt_rows, stmt_counts, arg_counts, sorted_groups,
                   ev_totals, simple_stmts>>
    /\ UNCHANGED <<pipeline_vars, utility_vars>>

\* make_stmt_from_sort_key is called for each derived key, as the key of a
\* group and with the type of the group.
MakeStmts ==
    /\ pc = "keyed"
    /\ simple_stmts' = [i \in DOMAIN keyed |->
                           make_stmt_from_sort_key(sort_key(keyed[i].key, 0, 0),
                                                   keyed[i].key.verb)]
    /\ pc' = "made"
    /\ UNCHANGED <<stmt_list, cursor, keyed, stmt_rows, stmt_counts, arg_counts,
                   sorted_groups, ev_totals>>
    /\ UNCHANGED <<pipeline_vars, utility_vars>>

\* list(name), name a str of a key: its characters.  The names of KeyNames
\* are one character long; 'None' is the name of an absent agent.
list_of_str(nm) ==
    IF nm = "None" THEN <<"N", "o", "n", "e">> ELSE <<nm>>

\* get_simplified_stmts(stmts), pairs the (key, s) pairs of
\* _get_keyed_stmts(stmts): make_stmt_from_sort_key is handed the grouping
\* key (verb, name, ...) itself, so that its inps = list(key[1]) is the
\* list of the characters of the first entry of the key (a str in every
\* variant).  key[1] of a key without entries, and inps[1] or inps[2] of a
\* list too short, raise IndexError.  (A one-character is_active is kept as
\* not 'True'.)
get_simplified_stmts(pairs) ==
    LET verb(k) == pairs[k].key.verb
        inps(k) == LET chars == list_of_str(pairs[k].key.inps[1][2])
                   IN [i \in DOMAIN chars |-> PyStr(chars[i])]
        raises(k) ==
            \/ pairs[k].key.inps = <<>>
            \/ /\ verb(k) \in {"Conversion", "ActiveForm", "HasActivity"}
               /\ Len(inps(k)) < 3
    IN IF \E k \in DOMAIN pairs : raises(k)
       THEN [raised |-> TRUE, list |-> <<>>]
       ELSE [raised |-> FALSE,
             list |-> [k \in DOMAIN pairs |->
                         make_stmt_from_sort_key([inps |-> inps(k)], verb(k))]]

\* simple_stmts = get_simplified_stmts(stmt_list) for a list of one
\* statement.
GetSimplifiedStmts ==
    /\ pc = "keyed"
    /\ LET r == get_simplified_stmts(keyed)
       IN /\ simple_stmts' = r.list
          /\ pc' = IF r.raised THEN "IndexError" ELSE "simplified"
    /\ UNCHANGED <<stmt_list, cursor, keyed, stmt_rows, stmt_counts, arg_counts,
                   sorted_groups, ev_totals>>
    /\ UNCHANGED <<pipeline_vars, utility_vars>>

SpecKeys == InitKeys /\ [][KeyStmts \/ MakeStmts \/ GetSimplifiedStmts]_vars

(* ------------------- transformations (assemble_corpus) ----------------- *)

\* A Statement object as the transformations see it: its class name, its
\* agents (agent_list()), for a Modification its site (residue and position),
\* its belief in hundredths, and its links supports and supported_by, lists
\* of objects (ids of heap).
Statement(type, agents, site, belief, supports, supported_by) ==
    [type |-> type, agents |-> agents, site |-> site, belief |-> belief,
     supports |-> supports, supported_by |-> supported_by]

\* An Agent object, held inside its statement: its name, its db_refs (a dict
\* from namespaces to values), the agents of its bound_conditions and its
\* mods, a list of (mod_type, residue, position).  The agent of a bound
\* condition is an Agent as well.
Agent(nm, db_refs, bound_conditions, mods) ==
    [name |-> nm, db_refs |-> db_refs, bound_conditions |-> bound_conditions,
     mods |-> mods]

\* None in an agent list.
NoneAgent == Agent(NoAgent, <<>>, <<>>, <<>>)

\* The values of db_refs: a str, or a list of scored groundings (of
\* which the scores are kept, in hundredths).
StrValue(x) == [type |-> "str", str |-> x, list |-> <<>>]
ListValue(scores) == [type |-> "list", str |-> "", list |-> scores]

\* bool(val) of a db_refs value.
truthy(val) == val.str # "" \/ val.list # <<>>

\* The options of a call (kwargs and named arguments), those not passed at
\* their defaults; a score_threshold of 0 stands for None as well, which the
\* code does not tell apart (if score_threshold:).
Kwargs(belief_cutoff, remove_bound, score_threshold, whitelist) ==
    [belief_cutoff |-> belief_cutoff, remove_bound |-> remove_bound,
     score_threshold |-> score_threshold, whitelist |-> whitelist]

NoCall ==
    [f |-> "", kwargs |-> Kwargs(0, FALSE, 0, None), stmts_in |-> <<>>,
     stmts_out |-> <<>>]

\* The record of a call of the transformation f.
CallOf(f, kwargs, stmts_in, stmts_out) ==
    [f |-> f, kwargs |-> kwargs, stmts_in |-> stmts_in, stmts_out |-> stmts_out]

\* filter_belief: the statements of the list links with belief >= cutoff
\* (the loops over stmt.supports and stmt.supported_by).
kept_links_all(h, links, belief_cutoff) == links
kept_links(h, links, belief_cutoff) ==
    SelectSeq(links, LAMBDA st : h[st].belief >= belief_cutoff)

\* The loop of filter_belief over stmts_in, h the heap and out the list
\* stmts_out so far.
RECURSIVE filter_belief_loop(_, _, _, _)
filter_belief_loop(h, stmts_in, belief_cutoff, out) ==
    IF stmts_in = <<>> THEN [heap |-> h, stmts_out |-> out]
    ELSE LET stmt == Head(stmts_in)
         IN IF h[stmt].belief < belief_cutoff
            THEN filter_belief_loop(h, Tail(stmts_in), belief_cutoff, out)
            ELSE filter_belief_loop(
                     [h EXCEPT ![stmt].supports =
                                   kept_links(h, h[stmt].supports, belief_cutoff),
                               ![stmt].supported_by =
                                   kept_links(h, h[stmt].supported_by, belief_cutoff)],
                     Tail(stmts_in), belief_cutoff, Append(out, stmt))

\* filter_belief(stmts_in, belief_cutoff): the heap after the call and the
\* returned list.
filter_belief(h, stmts_in, belief_cutoff) ==
    filter_belief_loop(h, stmts_in, belief_cutoff, <<>>)

\* A stage of the pipeline: filter_belief is called on the list the pipeline
\* holds.
FilterBelief ==
    /\ pc = "pipeline"
    /\ \E belief_cutoff \in {40, 50} :
          LET r == filter_belief(heap, corpus, belief_cutoff)
          IN /\ heap' = r.heap
             /\ corpus' = r.stmts_out
             /\ last' = CallOf("filter_belief", Kwargs(belief_cutoff, FALSE, 0, None),
                               corpus, r.stmts_out)
    /\ UNCHANGED <<grouping_vars, caller_whitelist, pickle_file, utility_vars>>

\* group_and_sort_statements and the key functions are not running.
NoGrouping ==
    /\ stmt_list = <<>>
    /\ cursor = 1
    /\ keyed = <<>>
    /\ stmt_rows = <<>>
    /\ stmt_counts = <<>>
    /\ arg_counts = <<>>
    /\ sorted_groups = <<>>
    /\ ev_totals = None
    /\ simple_stmts = <<>>

\* The ids of the set S as a list, in ascending order.
RECURSIVE ascending(_)
ascending(S) ==
    IF S = {} THEN <<>>
    ELSE LET m == CHOOSE x \in S : \A y \in S : x <= y
         IN <<m>> \o ascending(S \ {m})

\* The lists without repetition of at most n of the objects 1..n.
ListsOf(n) ==
    UNION { {l \in [1..k -> 1..n] : \A i, j \in 1..k : l[i] = l[j] => i = j} :
            k \in 0..n }

\* sorted(val, key=lambda x: x[1], reverse=True)[0][1]: the highest score of
\* a non-empty list of scored groundings.
high_score(val) == CHOOSE x \in Range(val) : \A y \in Range(val) : y <= x

\* _agent_is_grounded(agent, score_threshold)
agent_is_grounded(agent, score_threshold) ==
    LET db_names == (DOMAIN agent.db_refs) \ {"TEXT"}
        any_passing ==
            \E db_name \in db_names :
                LET val == agent.db_refs[db_name]
                IN /\ val.type = "list"
                   /\ val.list # <<>>
                   /\ high_score(val.list) > score_threshold
    IN /\ db_names # {}
       /\ \E db_name \in db_names : truthy(agent.db_refs[db_name])
       /\ (score_threshold # 0) => any_passing

\* _remove_bound_conditions(agent, keep_criterion), the criterion that of
\* filter_grounded_only: the agent with the bound conditions that meet it.
remove_bound_conditions(agent, score_threshold) ==
    [agent EXCEPT !.bound_conditions =
        SelectSeq(@, LAMBDA b : agent_is_grounded(b, score_threshold))]

\* _any_bound_condition_fails_criterion(agent, criterion)
any_bound_condition_fails_criterion(agent, score_threshold) ==
    \E i \in DOMAIN agent.bound_conditions :
        ~agent_is_grounded(agent.bound_conditions[i], score_threshold)

\* The loop of filter_grounded_only over the agent list of one statement,
\* from position i: whether the statement is grounded, and its agents as the
\* loop leaves them (it stops at the first agent that fails).  Every agent
\* is an Agent (no Concept).
RECURSIVE agents_loop_keep_bound(_, _, _, _)
agents_loop_keep_bound(agents, i, remove_bound, score_threshold) ==
    IF i > Len(agents) THEN [grounded |-> TRUE, agents |-> agents]
    ELSE IF agents[i].name = NoAgent
         THEN agents_loop_keep_bound(agents, i + 1, remove_bound, score_threshold)
    ELSE IF ~agent_is_grounded(agents[i], score_threshold)
         THEN [grounded |-> FALSE, agents |-> agents]
    ELSE IF any_bound_condition_fails_criterion(agents[i], score_threshold)
         THEN [grounded |-> FALSE, agents |-> agents]
    ELSE agents_loop_keep_bound(agents, i + 1, remove_bound, score_threshold)
RECURSIVE agents_loop(_, _, _, _)
agents_loop(agents, i, remove_bound, score_threshold) ==
    IF i > Len(agents) THEN [grounded |-> TRUE, agents |-> agents]
    ELSE IF agents[i].name = NoAgent
         THEN agents_loop(agents, i + 1, remove_bound, score_threshold)
    ELSE IF ~agent_is_grounded(agents[i], score_threshold)
         THEN [grounded |-> FALSE, agents |-> agents]
    ELSE IF remove_bound
         THEN agents_loop([agents EXCEPT ![i] =
                              remove_bound_conditions(@, score_threshold)],
                          i + 1, remove_bound, score_threshold)
    ELSE IF any_bound_condition_fails_criterion(agents[i], score_threshold)
         THEN [grounded |-> FALSE, agents |-> agents]
    ELSE agents_loop(agents, i + 1, remove_bound, score_threshold)

\* The loop of filter_grounded_only over stmts_in.
RECURSIVE filter_grounded_only_loop(_, _, _, _, _)
filter_grounded_only_loop(h, stmts_in, remove_bound, score_threshold, out) ==
    IF stmts_in = <<>> THEN [heap |-> h, stmts_out |-> out]
    ELSE LET st == Head(stmts_in)
             r == agents_loop(h[st].agents, 1, remove_bound, score_threshold)
         IN filter_grounded_only_loop(
                [h EXCEPT ![st].agents = r.agents], Tail(stmts_in),
                remove_bound, score_threshold,
                IF r.grounded THEN Append(out, st) ELSE out)

\* filter_grounded_only(stmts_in, remove_bound=..., score_threshold=...)
filter_grounded_only(h, stmts_in, remove_bound, score_threshold) ==
    filter_grounded_only_loop(h, stmts_in, remove_bound, score_threshold, <<>>)

\* A stage of the pipeline: filter_grounded_only is called on the list the
\* pipeline holds.
FilterGroundedOnly ==
    /\ pc = "pipeline"
    /\ \E remove_bound \in BOOLEAN, score_threshold \in {0, 50} :
          LET r == filter_grounded_only(heap, corpus, remove_bound, score_threshold)
          IN /\ heap' = r.heap
             /\ corpus' = r.stmts_out
             /\ last' = CallOf("filter_grounded_only",
                               Kwargs(0, remove_bound, score_threshold, None),
                               corpus, r.stmts_out)
    /\ UNCHANGED <<grouping_vars, caller_whitelist, pickle_file, utility_vars>>

\* The classes that are Modifications (isinstance(stmt, Modification)).
Modifications == {"Phosphorylation", "Dephosphorylation"}

\* The classes that are RemoveModifications.
RemoveModifications == {"Dephosphorylation"}

\* modclass_to_modtype and modtype_to_inverse, for the classes modelled.
modclass_to_modtype ==
    [Phosphorylation |-> "phosphorylation", Dephosphorylation |-> "dephosphorylation"]
modtype_to_inverse ==
    [phosphorylation |-> "dephosphorylation", dephosphorylation |-> "phosphorylation"]

\* mod_type of the second loop of filter_inconsequential_mods: the type of
\* the class, inverted for a RemoveModification.
mod_type_of(type) ==
    IF type \in RemoveModifications
    THEN modtype_to_inverse[modclass_to_modtype[type]]
    ELSE modclass_to_modtype[type]

\* A Whitelist argument: None, or a dict from names to lists of mods.
Whitelist(map) == [given |-> TRUE, map |-> map]

\* states_used.get(nm, []) of filter_inconsequential_mods once the index is
\* built: the mods the whitelist lists for the name nm and the mods of every
\* agent of that name in the agent list of a statement of stmts_in.
states_used(h, stmts_in, whitelist, nm) ==
    (IF whitelist.given /\ nm \in DOMAIN whitelist.map
     THEN Range(whitelist.map[nm])
     ELSE {})
    \cup UNION { UNION { Range(h[stmts_in[k]].agents[i].mods) :
                           i \in { j \in DOMAIN h[stmts_in[k]].agents :
                                     h[stmts_in[k]].agents[j].name = nm } } :
                   k \in DOMAIN stmts_in }

\* Whether the second loop of filter_inconsequential_mods skips the
\* statement stmt: a Modification whose site is not in states_used for the
\* name of its substrate (the second agent).
skip(h, stmts_in, whitelist, stmt) ==
    /\ stmt.type \in Modifications
    /\ <<mod_type_of(stmt.type), stmt.site[1], stmt.site[2]>>
          \notin states_used(h, stmts_in, whitelist, stmt.agents[2].name)

\* filter_inconsequential_mods(stmts_in, whitelist)
filter_inconsequential_mods(h, stmts_in, whitelist) ==
    [heap |-> h,
     stmts_out |-> SelectSeq(stmts_in, LAMBDA st : ~skip(h, stmts_in, whitelist, h[st]))]

\* The dict object whitelist after filter_inconsequential_mods has run on
\* it (states_used = whitelist: the index is built in the caller's dict): a
\* key for every name of the whitelist and every name of an agent with
\* modification conditions, each with list(set(v)), its mods without
\* repetition in the order the set delivers them.
whitelists_after(h, stmts_in, whitelist) ==
    LET agents == UNION { Range(h[stmts_in[k]].agents) : k \in DOMAIN stmts_in }
        names == (DOMAIN whitelist.map)
                 \cup { agent.name : agent \in { a \in agents : a.mods # <<>> } }
    IN { Whitelist(map) :
           map \in { m \in [names -> UNION { IterOrders(states_used(h, stmts_in, whitelist, nm)) :
                                              nm \in names }] :
                       \A nm \in names :
                           m[nm] \in IterOrders(states_used(h, stmts_in, whitelist, nm)) } }

\* The whitelists filter_inconsequential_mods is called with, each a dict
\* made for the call.
Whitelists ==
    {None, Whitelist("B" :> <<(<<"phosphorylation", "S", "1">>)>>)}

\* A stage of the pipeline: filter_inconsequential_mods is called on the
\* list the pipeline holds, with no whitelist, with a dict made for the call,
\* or (shared) with the dict the caller holds, which the call leaves as the
\* index it has built.
FilterInconsequentialMods ==
    /\ pc = "pipeline"
    /\ \E shared \in {FALSE} \cup {caller_whitelist.given} :
       \E whitelist \in (IF shared THEN {caller_whitelist} ELSE Whitelists) :
          LET r == filter_inconsequential_mods(heap, corpus, whitelist)
          IN /\ heap' = r.heap
             /\ corpus' = r.stmts_out
             /\ last' = CallOf("filter_inconsequential_mods",
                               Kwargs(0, FALSE, 0, whitelist), corpus, r.stmts_out)
             /\ caller_whitelist' \in
                   (IF shared THEN whitelists_after(heap, corpus, whitelist)
                    ELSE {caller_whitelist})
    /\ UNCHANGED <<grouping_vars, pickle_file, utility_vars>>

\* The objects a deep copy of the objects S reaches: S and, through supports
\* and supported_by, every statement linked to them.
RECURSIVE Reach(_, _)
Reach(h, S) ==
    LET T == S \cup UNION { Range(h[id].supports) \cup Range(h[id].supported_by) :
                            id \in S }
    IN IF T = S THEN S ELSE Reach(h, T)

\* No copy at all: the statement itself.
deepcopy_same_object(h, st) == [heap |-> h, new_st |-> st]

\* deepcopy(st): the heap with a new object for every object st reaches, the
\* links among the copies as among the originals, and the copy of st.
deepcopy(h, st) ==
    LET R == ascending(Reach(h, {st}))
        new(id) == Len(h) + (CHOOSE k \in DOMAIN R : R[k] = id)
        copies == [k \in DOMAIN R |->
                      [h[R[k]] EXCEPT
                          !.supports = [j \in DOMAIN @ |-> new(@[j])],
                          !.supported_by = [j \in DOMAIN @ |-> new(@[j])]]]
    IN [heap |-> h \o copies, new_st |-> new(st)]

\* The agent after the loop body of strip_agent_context: None is left alone.
stripped(agent) ==
    IF agent.name = NoAgent THEN agent
    ELSE [agent EXCEPT !.mods = <<>>, !.bound_conditions = <<>>]

\* The loop of strip_agent_context over stmts_in.
RECURSIVE strip_agent_context_loop(_, _, _)
strip_agent_context_loop(h, stmts_in, out) ==
    IF stmts_in = <<>> THEN [heap |-> h, stmts_out |-> out]
    ELSE LET c == deepcopy(h, Head(stmts_in))
             new_st == c.new_st
         IN strip_agent_context_loop(
                [c.heap EXCEPT ![new_st].agents =
                    [i \in DOMAIN @ |-> stripped(@[i])]],
                Tail(stmts_in), Append(out, new_st))

\* strip_agent_context(stmts_in)
strip_agent_context(h, stmts_in) == strip_agent_context_loop(h, stmts_in, <<>>)

\* The most objects the heap of a pipeline holds: strip_agent_context is not
\* called when its copies would exceed it.
MaxObjects == 6

\* A stage of the pipeline: strip_agent_context is called on the list the
\* pipeline holds.
StripAgentContext ==
    /\ pc = "pipeline"
    /\ LET r == strip_agent_context(heap, corpus)
       IN /\ Len(r.heap) <= MaxObjects
          /\ heap' = r.heap
          /\ corpus' = r.stmts_out
          /\ last' = CallOf("strip_agent_context", Kwargs(0, FALSE, 0, None),
                            corpus, r.stmts_out)
    /\ UNCHANGED <<grouping_vars, caller_whitelist, pickle_file, utility_vars>>

(* -------------------- pipelines: filter_grounded_only ------------------ *)

\* Agents by their grounding: with a str entry, with TEXT alone, with a list
\* of scored groundings.
Grounded(nm) == Agent(nm, "HGNC" :> StrValue("1"), <<>>, <<>>)
Ungrounded(nm) == Agent(nm, "TEXT" :> StrValue(nm), <<>>, <<>>)
Scored(nm, scores) == Agent(nm, "UN" :> ListValue(scores), <<>>, <<>>)

\* The agent with the bound conditions given.
Bound(agent, bound_conditions) ==
    [agent EXCEPT !.bound_conditions = bound_conditions]

\* An Activation of two agents, with belief 1 and no links.
ActivationOf(subj, obj) == Statement("Activation", <<subj, obj>>, <<>>, 100, <<>>, <<>>)

\* The statements of the lists of SpecGrounded: agents grounded or not, with
\* and without scored groundings (top score above, at and below the
\* threshold 50, or an empty list), bound to grounded and ungrounded
\* partners, before and after an ungrounded agent.
GroundedUniverse ==
    { ActivationOf(Bound(Grounded("A"), <<Ungrounded("D"), Grounded("E")>>), Grounded("B")),
      ActivationOf(Bound(Grounded("A"), <<Ungrounded("D")>>), Ungrounded("B")),
      ActivationOf(Ungrounded("A"), Bound(Grounded("B"), <<Ungrounded("D")>>)),
      ActivationOf(Grounded("A"), NoneAgent),
      ActivationOf(Scored("A", <<20, 50>>), Grounded("B")),
      ActivationOf(Scored("A", <<90, 20>>), Scored("B", <<60>>)),
      ActivationOf(Scored("A", <<40>>), Scored("B", <<60>>)),
      ActivationOf(Bound(Scored("A", <<90>>), <<Grounded("D"), Scored("E", <<70>>)>>),
                   NoneAgent),
      ActivationOf(Scored("A", <<>>), NoneAgent) }

\* The heaps of at most MaxStmts statements of the set U, and the list of
\* all of them.
HeapsOf(U) == UNION { [1..n -> U] : n \in 1..MaxStmts }

InitGrounded ==
    /\ pc = "pipeline"
    /\ NoGrouping
    /\ NoUtilities
    /\ heap \in HeapsOf(GroundedUniverse)
    /\ corpus = [i \in DOMAIN heap |-> i]
    /\ last = NoCall
    /\ caller_whitelist = None
    /\ pickle_file = [written |-> FALSE, stmts |-> <<>>]

SpecGrounded == InitGrounded /\ [][FilterGroundedOnly]_vars

(* ----------------------- pipelines: filter_belief ---------------------- *)

\* The most Statement objects a heap of SpecBelief holds.
MaxHeap == 3

\* The beliefs of the statements of SpecBelief, in hundredths: below the
\* cutoff 50 and equal to it.
Beliefs == {40, 50}

\* The heaps of n statements with hierarchy links as combine_related leaves
\* them: a supports b exactly when b is supported by a, and no cycles (a
\* statement supports statements of larger id only).
BeliefHeaps(n) ==
    LET pairs == {p \in (1..n) \X (1..n) : p[1] < p[2]}
    IN { [id \in 1..n |->
            Statement("Activation", <<>>, <<>>, b[id],
                      ascending({j \in 1..n : <<id, j>> \in E}),
                      ascending({j \in 1..n : <<j, id>> \in E}))] :
         E \in SUBSET pairs, b \in [1..n -> Beliefs] }

InitBelief ==
    /\ pc = "pipeline"
    /\ NoGrouping
    /\ NoUtilities
    /\ \E n \in 1..MaxHeap :
          /\ heap \in BeliefHeaps(n)
          /\ corpus \in ListsOf(n)
    /\ last = NoCall
    /\ caller_whitelist = None
    /\ pickle_file = [written |-> FALSE, stmts |-> <<>>]

SpecBelief == InitBelief /\ [][FilterBelief]_vars

(* ---------------------- pipelines of all four stages ------------------- *)

\* An agent with the modification conditions given, and one without.
Modified(nm, mods) == Agent(nm, "HGNC" :> StrValue("1"), <<>>, mods)

\* A Modification of the substrate sub by enz at the site (residue,
\* position), with belief 1 and no links.
ModificationOf(type, enz, sub, residue, position) ==
    Statement(type, <<enz, sub>>, <<residue, position>>, 100, <<>>, <<>>)

PhosT5 == <<"phosphorylation", "T", "5">>
PhosS1 == <<"phosphorylation", "S", "1">>

\* The statements a pipeline without links starts from: the site T5 of A is
\* a condition on the enzyme of a Phosphorylation of B at S1, which no agent
\* carries; A has an ungrounded bound partner; C is ungrounded.
PipelineUniverse ==
    { ModificationOf("Phosphorylation", Modified("A", <<PhosT5>>), Grounded("B"), "S", "1"),
      ModificationOf("Phosphorylation", Grounded("C"), Grounded("A"), "T", "5"),
      ModificationOf("Dephosphorylation", NoneAgent, Grounded("A"), "T", "5"),
      ActivationOf(Bound(Grounded("A"), <<Ungrounded("D")>>), Grounded("B")),
      ActivationOf(Grounded("A"), Ungrounded("C")) }

\* A pipeline starts from linked statements with beliefs, from statements
\* with grounded and ungrounded agents, or from Modifications.
InitPipeline ==
    /\ pc = "pipeline"
    /\ NoGrouping
    /\ NoUtilities
    /\ \/ \E n \in 1..MaxStmts :
              /\ heap \in BeliefHeaps(n)
              /\ corpus \in ListsOf(n)
       \/ /\ heap \in HeapsOf(PipelineUniverse)
          /\ corpus = [i \in DOMAIN heap |-> i]
    /\ last = NoCall
    /\ caller_whitelist = None
    /\ pickle_file = [written |-> FALSE, stmts |-> <<>>]

SpecPipeline ==
    InitPipeline /\ [][\/ FilterBelief
                       \/ FilterGroundedOnly
                       \/ FilterInconsequentialMods
                       \/ StripAgentContext]_vars

(* ----------------- pipelines: filter_inconsequential_mods -------------- *)

\* The statements of the lists of SpecMods: those of PipelineUniverse that
\* are Modifications, a Phosphorylation of A at T5 by an enzyme A that
\* carries the site itself, and an Activation by a B that carries S1 twice.
ModsUniverse ==
    { stmt \in PipelineUniverse : stmt.type \in Modifications }
    \cup { ModificationOf("Phosphorylation", Modified("A", <<PhosT5>>), Grounded("A"), "T", "5"),
            ActivationOf(Modified("B", <<PhosS1, PhosS1>>), Ungrounded("C")) }

\* The caller holds no whitelist, an empty one, or one that lists S1 of B
\* twice.
InitMods ==
    /\ pc = "pipeline"
    /\ NoGrouping
    /\ NoUtilities
    /\ heap \in HeapsOf(ModsUniverse)
    /\ corpus = [i \in DOMAIN heap |-> i]
    /\ last = NoCall
    /\ pickle_file = [written |-> FALSE, stmts |-> <<>>]
    /\ caller_whitelist \in {None, Whitelist(<<>>), Whitelist("B" :> <<PhosS1, PhosS1>>)}

SpecMods == InitMods /\ [][FilterInconsequentialMods]_vars

(* ------------ pipelines: filters by type, name and grounding ----------- *)

\* isinstance(st, stmt_type), for the classes modelled: a class is an
\* instance of itself, a Phosphorylation or Dephosphorylation of Modification
\* as well, and every class of Statement.
isinstance_same_class(type, stmt_type) == type = stmt_type
isinstance(type, stmt_type) ==
    \/ type = stmt_type
    \/ stmt_type = "Modification" /\ type \in Modifications
    \/ stmt_type = "Statement"

\* The body of filter_by_type(stmts_in, stmt_type, invert=...)
filter_by_type(h, stmts_in, stmt_type, invert) ==
    [heap |-> h, outcome |-> "list",
     stmts_out |-> SelectSeq(stmts_in, LAMBDA st :
                       IF invert THEN ~isinstance(h[st].type, stmt_type)
                       ELSE isinstance(h[st].type, stmt_type))]

\* The first loop of filter_gene_list with remove_bound, from agent i of
\* statement k of stmts_in: _remove_bound_conditions on every agent of every
\* statement, which raises AttributeError at an agent that is None.
RECURSIVE remove_bound_loop(_, _, _, _, _, _)
remove_bound_loop(h, stmts_in, k, i, filter_list, invert) ==
    IF k > Len(stmts_in) THEN [heap |-> h, outcome |-> "list"]
    ELSE IF i > Len(h[stmts_in[k]].agents)
         THEN remove_bound_loop(h, stmts_in, k + 1, 1, filter_list, invert)
    ELSE IF h[stmts_in[k]].agents[i].name = NoAgent
         THEN [heap |-> h, outcome |-> "AttributeError"]
    ELSE remove_bound_loop(
             [h EXCEPT ![stmts_in[k]].agents[i].bound_conditions =
                 SelectSeq(@, LAMBDA b : IF invert THEN b.name \notin Range(filter_list)
                                         ELSE b.name \in Range(filter_list))],
             stmts_in, k, i + 1, filter_list, invert)

\* st.agent_list_with_bound_condition_agents(): the agents of the statement
\* followed by the agents bound to them.
agent_list_with_bound_condition_agents(stmt) ==
    LET RECURSIVE bound(_)
        bound(i) == IF i > Len(stmt.agents) THEN <<>>
                    ELSE stmt.agents[i].bound_conditions \o bound(i + 1)
    IN stmt.agents \o bound(1)

\* found_gene / found_genes / found of the policy loops, before invert: with
\* "one" some agent that is not None has its name in name_list, with "all"
\* every one has.
found(agents, name_list, policy) ==
    LET names == { agents[i].name : i \in DOMAIN agents } \ {NoAgent}
    IN IF policy = "one" THEN names \cap Range(name_list) # {}
       ELSE names \subseteq Range(name_list)

\* The body of filter_gene_list(stmts_in, gene_list, policy,
\* remove_bound=..., invert=...), without allow_families.
filter_gene_list(h, stmts_in, gene_list, policy, remove_bound, invert) ==
    LET r == IF remove_bound THEN remove_bound_loop(h, stmts_in, 1, 1, gene_list, invert)
             ELSE [heap |-> h, outcome |-> "list"]
        agents_of(st) == IF remove_bound THEN r.heap[st].agents
                          ELSE agent_list_with_bound_condition_agents(r.heap[st])
    IN [heap |-> r.heap, outcome |-> r.outcome,
        stmts_out |-> IF r.outcome # "list" THEN <<>>
                      ELSE IF policy \in {"one", "all"}
                      THEN SelectSeq(stmts_in, LAMBDA st :
                               found(agents_of(st), gene_list, policy) # invert)
                      ELSE stmts_in]

\* The body of filter_concept_names(stmts_in, name_list, policy, invert=...)
filter_concept_names(h, stmts_in, name_list, policy, invert) ==
    [heap |-> h, outcome |-> "list",
     stmts_out |-> IF policy \in {"one", "all"}
                   THEN SelectSeq(stmts_in, LAMBDA st :
                            found(h[st].agents, name_list, policy) # invert)
                   ELSE stmts_in]

\* meets_criterion(agent) of filter_by_db_refs, for entries that are str and
\* without match_suffix.
meets_criterion(agent, namespace, values, invert) ==
    IF namespace \notin DOMAIN agent.db_refs THEN FALSE
    ELSE (agent.db_refs[namespace].str \in Range(values)) # invert

\* The body of filter_by_db_refs(stmts_in, namespace, values, policy,
\* invert=...): None for a policy that is neither "one" nor "all".
filter_by_db_refs(h, stmts_in, namespace, values, policy, invert) ==
    LET met(st) == { meets_criterion(h[st].agents[i], namespace, values, invert) :
                       i \in { j \in DOMAIN h[st].agents :
                                  h[st].agents[j].name # NoAgent } }
    IN [heap |-> h,
        outcome |-> IF policy \in {"one", "all"} THEN "list" ELSE "None",
        stmts_out |-> IF policy \notin {"one", "all"} THEN <<>>
                      ELSE SelectSeq(stmts_in, LAMBDA st :
                               IF policy = "all" THEN FALSE \notin met(st)
                               ELSE TRUE \in met(st))]

\* The end of a transformation f called with the options kwargs, r what its
\* body has computed.  With save given, dump_statements opens the file and
\* pickles stmts_out before the return; an error of the body or of the dump
\* is raised to the caller, who then has no result, and a dump that fails
\* leaves the file as it was or empty.  A transformation that returns None
\* leaves the pipeline without a list.
Return(f, kwargs, r, write) ==
    LET dumped == r.outcome = "list" /\ kwargs.save
        returned == r.outcome = "list" /\ (kwargs.save => write = "written")
    IN /\ heap' = r.heap
       /\ last' = CallOf(f, kwargs, corpus, r.stmts_out)
       /\ corpus' = IF returned THEN r.stmts_out ELSE corpus
       /\ pc' = IF returned THEN "pipeline"
                ELSE IF r.outcome = "list" THEN "OSError"
                ELSE r.outcome
       /\ pickle_file' =
             IF dumped /\ write = "written"
             THEN [written |-> TRUE,
                   stmts |-> [i \in DOMAIN r.stmts_out |-> r.heap[r.stmts_out[i]]]]
             ELSE IF dumped /\ write = "truncated"
             THEN [written |-> FALSE, stmts |-> <<>>]
             ELSE pickle_file
       /\ UNCHANGED <<stmt_list, cursor, keyed, stmt_rows, stmt_counts, arg_counts,
                      sorted_groups, ev_totals, simple_stmts, caller_whitelist,
                      utility_vars>>

\* The options of a call of one of these filters; those it does not take
\* are at their defaults.
Options(stmt_type, policy, remove_bound, invert, save) ==
    [stmt_type |-> stmt_type, policy |-> policy, remove_bound |-> remove_bound,
     invert |-> invert, save |-> save]

\* A stage of the pipeline: filter_by_type.
FilterByType ==
    /\ pc = "pipeline"
    /\ \E stmt_type \in {"Activation", "Modification"}, invert \in BOOLEAN,
          save \in BOOLEAN :
       \E write \in (IF save THEN {"written", "untouched", "truncated"} ELSE {"written"}) :
          Return("filter_by_type", Options(stmt_type, "", FALSE, invert, save),
                 filter_by_type(heap, corpus, stmt_type, invert), write)

\* A stage of the pipeline: filter_gene_list(stmts, ['A'], policy, ...).
FilterGeneList ==
    /\ pc = "pipeline"
    /\ \E policy \in {"one", "all", "any"}, remove_bound \in BOOLEAN, invert \in BOOLEAN :
          Return("filter_gene_list", Options("", policy, remove_bound, invert, FALSE),
                 filter_gene_list(heap, corpus, <<"A">>, policy, remove_bound, invert),
                 "written")

\* A stage of the pipeline: filter_concept_names(stmts, ['A'], policy, ...).
FilterConceptNames ==
    /\ pc = "pipeline"
    /\ \E policy \in {"one", "all", "any"}, invert \in BOOLEAN :
          Return("filter_concept_names", Options("", policy, FALSE, invert, FALSE),
                 filter_concept_names(heap, corpus, <<"A">>, policy, invert), "written")

\* A stage of the pipeline: filter_by_db_refs(stmts, 'HGNC', ['1'], policy,
\* ...).
FilterByDbRefs ==
    /\ pc = "pipeline"
    /\ \E policy \in {"one", "all", "any"}, invert \in BOOLEAN :
          Return("filter_by_db_refs", Options("", policy, FALSE, invert, FALSE),
                 filter_by_db_refs(heap, corpus, "HGNC", <<"1">>, policy, invert),
                 "written")

\* The statements of the lists of SpecSelect: A is grounded to HGNC 1 and B
\* to HGNC 2; an Activation of B by A, of nothing by A, of A by an A bound to
\* B and to A, and a Phosphorylation of B by B.
SelectUniverse ==
    LET A == Agent("A", "HGNC" :> StrValue("1"), <<>>, <<>>)
        B == Agent("B", "HGNC" :> StrValue("2"), <<>>, <<>>)
    IN { ActivationOf(A, B),
         ActivationOf(A, NoneAgent),
         ActivationOf(Bound(A, <<B, A>>), A),
         ModificationOf("Phosphorylation", B, B, "S", "1") }

InitSelect ==
    /\ pc = "pipeline"
    /\ NoGrouping
    /\ NoUtilities
    /\ heap \in HeapsOf(SelectUniverse)
    /\ corpus = [i \in DOMAIN heap |-> i]
    /\ last = [NoCall EXCEPT !.kwargs = Options("", "", FALSE, FALSE, FALSE)]
    /\ caller_whitelist = None
    /\ pickle_file = [written |-> FALSE, stmts |-> <<>>]

SpecSelect ==
    InitSelect /\ [][\/ FilterByType
                     \/ FilterGeneList
                     \/ FilterConceptNames
                     \/ FilterByDbRefs]_vars

(* ---------------------------- align_statements ------------------------- *)

\* name_keyfun(stmt): the tuple of the names of the agents of stmt, None for
\* an absent agent (an agent is its name, NoAgent is None).
name_keyfun(stmt) == [i \in DOMAIN agent_list(stmt) |-> agent_list(stmt)[i]]

\* keys.index(key): the first position of key in keys; 0 for ValueError.
index(keys, key) ==
    IF \E i \in DOMAIN keys : keys[i] = key
    THEN CHOOSE i \in DOMAIN keys : keys[i] = key /\ \A j \in 1..(i - 1) : keys[j] # key
    ELSE 0

\* align_statements(l1, l2) with the default key function.  A tuple of the
\* result names its components by their positions in l1 and in l2, 0 for
\* None.
align_statements(l1, l2) ==
    LET keys1 == [i \in DOMAIN l1 |-> name_keyfun(l1[i])]
        keys2 == [i \in DOMAIN l2 |-> name_keyfun(l2[i])]
        unmatched == SelectSeq([j \in DOMAIN l2 |-> j],
                               LAMBDA j : index(keys1, keys2[j]) = 0)
    IN [i \in DOMAIN l1 |-> <<i, index(keys2, keys1[i])>>]
       \o [k \in DOMAIN unmatched |-> <<0, unmatched[k]>>]

\* matches = align_statements(stmts1, stmts2)
AlignStatements ==
    /\ pc = "align"
    /\ matches' = align_statements(stmts1, stmts2)
    /\ pc' = "aligned"
    /\ UNCHANGED <<stmt_list, cursor, keyed, stmt_rows, stmt_counts, arg_counts,
                   sorted_groups, ev_totals, simple_stmts>>
    /\ UNCHANGED <<pipeline_vars, stmts1, stmts2, tag_info_list, format_text>>

\* The two lists are drawn from two statements with the same agents, one
\* without enzyme and one with the agents in the other order.
InitAlign ==
    /\ pc = "align"
    /\ NoGrouping
    /\ NoPipeline
    /\ \E l1, l2 \in UNION { [1..n -> { Phosphorylation("A", "B", 1),
                                          Activation("A", "B", 1),
                                          Phosphorylation(NoAgent, "B", 1),
                                          Activation("B", "A", 1) }] :
                               n \in 0..MaxStmts } :
          stmts1 = l1 /\ stmts2 = l2
    /\ matches = <<>>
    /\ tag_info_list = <<>>
    /\ format_text = <<>>

SpecAlign == InitAlign /\ [][AlignStatements]_vars

(* --------------------------------- tag_text ---------------------------- *)

\* The longest list of spans handed to tag_text.
MaxTags == 3

\* The text that is tagged, as the list of its characters (positions from 0).
text == <<"a", "b", "c", "d", "e", "f", "g">>

\* A span (start_ix, end_ix, substring, start_tag, close_tag) of the text:
\* substring is text[start_ix:end_ix], and tag names its start and close tag.
Span(start_ix, end_ix, tag) == [start_ix |-> start_ix, end_ix |-> end_ix, tag |-> tag]

\* overlap(t1, t2): <<>> for None, else the list of the one tag returned.
overlap(t1, t2) ==
    LET lo == IF t1.start_ix >= t2.start_ix THEN t1.start_ix ELSE t2.start_ix
        hi == (IF t1.end_ix - 1 <= t2.end_ix - 1 THEN t1.end_ix - 1 ELSE t2.end_ix - 1) + 1
    IN IF lo < hi
       THEN IF t1.end_ix - t1.start_ix >= t2.end_ix - t2.start_ix THEN <<t2>> ELSE <<t1>>
       ELSE <<>>

\* The loop over list(itertools.combinations(tag_info_list, 2)), from the
\* k-th pair of the snapshot pairs on: the subsumed tag of a pair is deleted
\* from tags at the first position that holds an equal tuple
\* (tag_info_list.index), or nowhere when no such tuple is left.
RECURSIVE remove_subsumed(_, _, _)
remove_subsumed(tags, pairs, k) ==
    IF k > Len(pairs) THEN tags
    ELSE LET subsumed_tag == overlap(pairs[k][1], pairs[k][2])
             tag_ix == IF subsumed_tag = <<>> THEN 0 ELSE index(tags, subsumed_tag[1])
         IN remove_subsumed(IF tag_ix = 0 THEN tags
                            ELSE [i \in 1..(Len(tags) - 1) |->
                                    IF i < tag_ix THEN tags[i] ELSE tags[i + 1]],
                            pairs, k + 1)

\* tag_info_list.sort(key=lambda x: x[0]) from the start position p on: the
\* sort is stable.
RECURSIVE sort_by_start(_, _)
sort_by_start(tags, p) ==
    IF p > Len(text) THEN <<>>
    ELSE SelectSeq(tags, LAMBDA t : t.start_ix = p) \o sort_by_start(tags, p + 1)

\* The loop that builds format_text from the k-th tag on: the text between
\* start_pos and the tag, then tag_start + ag_text + tag_close; after the
\* last tag, the rest of the text.  slice(a, b) is text[a:b] as a list of
\* pieces of text.
RECURSIVE format(_, _, _)
format(tags, k, start_pos) ==
    LET slice(a, b) == [i \in 1..(IF b > a THEN b - a ELSE 0) |-> <<"text", text[a + i]>>]
    IN
    IF k > Len(tags) THEN slice(start_pos, Len(text))
    ELSE slice(start_pos, tags[k].start_ix)
         \o <<<<"start", tags[k].tag>>>>
         \o slice(tags[k].start_ix, tags[k].end_ix)
         \o <<<<"close", tags[k].tag>>>>
         \o format(tags, k + 1, tags[k].end_ix)

\* tag_text(text, tags): the list it leaves in tag_info_list and the text it
\* returns.
tag_text(tags) ==
    LET pairs == LET ix == SelectSeq([n \in 1..(Len(tags) * Len(tags)) |->
                                        <<((n - 1) \div Len(tags)) + 1,
                                          ((n - 1) % Len(tags)) + 1>>],
                                    LAMBDA c : c[1] < c[2])
                 IN [n \in DOMAIN ix |-> <<tags[ix[n][1]], tags[ix[n][2]]>>]
        left == sort_by_start(remove_subsumed(tags, pairs, 1), 0)
    IN [tag_info_list |-> left, format_text |-> format(left, 1, 0)]

\* format_text = tag_text(text, tag_info_list)
TagText ==
    /\ pc = "tag"
    /\ tag_info_list' = tag_text(tag_info_list).tag_info_list
    /\ format_text' = tag_text(tag_info_list).format_text
    /\ pc' = "tagged"
    /\ UNCHANGED <<stmt_list, cursor, keyed, stmt_rows, stmt_counts, arg_counts,
                   sorted_groups, ev_totals, simple_stmts>>
    /\ UNCHANGED <<pipeline_vars, stmts1, stmts2, matches>>

\* The lists of spans: a span of four characters, one of three that overlaps
\* it, one of two that overlaps the second, a second span over the place
\* of the first with another tag, and a span inside the first.
InitTags ==
    /\ pc = "tag"
    /\ NoGrouping
    /\ NoPipeline
    /\ stmts1 = <<>>
    /\ stmts2 = <<>>
    /\ matches = <<>>
    /\ \E tags \in UNION { [1..n -> { Span(0, 4, "x"), Span(3, 6, "x"), Span(5, 7, "x"),
                                        Span(0, 4, "y"), Span(1, 2, "x") }] :
                              n \in 0..MaxTags } :
          tag_info_list = tags
    /\ format_text = <<>>

SpecTags == InitTags /\ [][TagText]_vars

(* ------------------------------ properties ----------------------------- *)

PairKey(a, b) == Key("Complex", <<PyStr(a), PyStr(b)>>)

\* The positions in the returned list of the groups of the key.
GroupsOf(key) ==
    {i \in DOMAIN sorted_groups :
        /\ sorted_groups[i].verb = key.verb
        /\ sorted_groups[i].new_key.inps = key.inps}

InOutput(key) == GroupsOf(key) # {}

\* The key has exactly one group in the returned list, with group weight w.
OnceWithGroupWeight(key, w) ==
    /\ Cardinality(GroupsOf(key)) = 1
    /\ \A i \in GroupsOf(key) : sorted_groups[i].new_key.sub_count = w

ComplexAB(ev) == Complex(<<"A", "B">>, ev)
ComplexABC(ev) == Complex(<<"A", "B", "C">>, ev)

\* The lists made of the two statements s1 and s2.
BothOrders(s1, s2) == {<<s1, s2>>, <<s2, s1>>}

\* C1: a 2-argument Complex key that received a statement is absent from the
\* returned groups if and only if its group weight equals the argument weight
\* of its role tuple and each of its member statements has more than 2
\* distinct participant names.  With the single statement Complex(A,B,C) of
\* weight 5 the group (Complex,A,B) is absent; with a Complex(A,B) of weight 1
\* added it is present with group weight 6.
C1_Suppression ==
    pc = "done" =>
        /\ \A r \in DOMAIN stmt_rows :
              LET key == stmt_rows[r].key
                  members == stmt_rows[r].stmts
              IN (key.verb = "Complex" /\ Len(key.inps) = 2) =>
                    ((~InOutput(key)) <=>
                        /\ Get(stmt_counts, key) = Get(arg_counts, key.inps)
                        /\ \A k \in DOMAIN members :
                              Cardinality(ag_ns_of(stmt_list[members[k]])) > 2)
        /\ stmt_list = <<ComplexABC(5)>> => ~InOutput(PairKey("A", "B"))
        /\ stmt_list \in BothOrders(ComplexABC(5), ComplexAB(1)) =>
              OnceWithGroupWeight(PairKey("A", "B"), 6)

\* C1 witness: a call has returned with one derived pair of a 3-member Complex
\* suppressed and another one, backed by a direct Complex, present.
C1_Witness ==
    /\ pc = "done"
    /\ stmt_list \in BothOrders(ComplexABC(5), ComplexAB(1))
    /\ ~InOutput(PairKey("A", "C"))
    /\ OnceWithGroupWeight(PairKey("A", "B"), 6)

\* The end-to-end scenario: a call has returned for one 2-participant
\* statement over (A,B) of weight 2, given by pairwise, and Complex(A,B,C) of
\* weight 5.
C2_Scenario(pairwise) ==
    /\ pc = "done"
    /\ stmt_list \in BothOrders(pairwise, ComplexABC(5))

\* C2 as claimed: in the end-to-end scenario the groups (Complex,A,C) and
\* (Complex,B,C) are returned with weight 5 and the group (Complex,A,B) is
\* returned once with weight 7.
C2_EndToEnd ==
    \A pairwise \in {ComplexAB(2), Phosphorylation("A", "B", 2)} :
        C2_Scenario(pairwise) =>
            /\ OnceWithGroupWeight(PairKey("A", "C"), 5)
            /\ OnceWithGroupWeight(PairKey("B", "C"), 5)
            /\ Cardinality(GroupsOf(PairKey("A", "B"))) = 1
            /\ \A i \in GroupsOf(PairKey("A", "B")) :
                  \/ sorted_groups[i].new_key.sub_count = 7
                  \/ sorted_groups[i].new_key.arg_count = 7

\* C2 amended: in the end-to-end scenario no group of a pair with C is
\* returned (they are derived only, hence suppressed); the group (Complex,A,B)
\* is returned exactly once, with argument weight 7, and with group weight 7
\* when the 2-participant statement is a Complex and 5 when it is not.
C2_EndToEndAmended ==
    \A pairwise \in {ComplexAB(2), Phosphorylation("A", "B", 2)} :
        C2_Scenario(pairwise) =>
            /\ \A x \in {"A", "B"} :
                  ~InOutput(PairKey(x, "C")) /\ ~InOutput(PairKey("C", x))
            /\ OnceWithGroupWeight(PairKey("A", "B"),
                                   IF pairwise.type = "Complex" THEN 7 ELSE 5)
            /\ \A i \in GroupsOf(PairKey("A", "B")) :
                  sorted_groups[i].new_key.arg_count = 7

\* C2 witness: the scenario with a Phosphorylation as the 2-participant
\* statement has returned, the group (Complex,A,B) among its groups.
C2_Witness ==
    /\ C2_Scenario(Phosphorylation("A", "B", 2))
    /\ InOutput(PairKey("A", "B"))

\* How many times the loop body for a Conversion with controller name x,
\* input names ins and output names outs adds the weight to the role tuple r.
C3_Times(r, x, ins, outs) ==
    IF Len(r) = 2 /\ r[1] = PyStr(x) /\ r[2][1] = "s"
    THEN (IF r[2][2] \in ins THEN 1 ELSE 0) + (IF r[2][2] \in outs THEN 1 ELSE 0)
    ELSE 0

\* C3: the step that aggregates a Conversion with controller X, input names
\* I, output names O and weight w adds w to arg_counts[(X,m)] for every m of
\* I and for every m of O, and changes no other entry of arg_counts; for
\* Conversion(A, [B,C], [D]) of weight 3 the entries (A,B), (A,C) and (A,D)
\* grow by 3 each.
C3_WeightPropagation ==
    [][(/\ pc = "run"
        /\ cursor <= Len(stmt_list)
        /\ cursor' = cursor + 1
        /\ stmt_list[cursor].type = "Conversion") =>
          LET s == stmt_list[cursor]
              x == name(s.ags[1])
              ins == {name(ag) : ag \in Range(s.obj_from)}
              outs == {name(ag) : ag \in Range(s.obj_to)}
              touched == {<<PyStr(x), PyStr(m)>> : m \in ins \cup outs}
          IN /\ \A r \in (DOMAIN arg_counts) \cup (DOMAIN arg_counts') \cup touched :
                   Get(arg_counts', r) =
                       Get(arg_counts, r) + count(s) * C3_Times(r, x, ins, outs)
             /\ s = Conversion("A", <<"B", "C">>, <<"D">>, 3) =>
                   \A m \in {"B", "C", "D"} :
                       Get(arg_counts', <<PyStr("A"), PyStr(m)>>) =
                           Get(arg_counts, <<PyStr("A"), PyStr(m)>>) + 3
      ]_vars

\* C3 witness: the loop has aggregated Conversion(A, [B,C], [D]) of weight 3
\* after a Phosphorylation(A,B) of weight 2, and arg_counts holds 5 for (A,B)
\* and 3 for (A,C) and (A,D).
C3_Witness ==
    /\ stmt_list = <<Phosphorylation("A", "B", 2),
                     Conversion("A", <<"B", "C">>, <<"D">>, 3)>>
    /\ cursor = 3
    /\ Get(arg_counts, <<PyStr("A"), PyStr("B")>>) = 5
    /\ Get(arg_counts, <<PyStr("A"), PyStr("C")>>) = 3
    /\ Get(arg_counts, <<PyStr("A"), PyStr("D")>>) = 3

\* C4 as claimed: in every returned group, of every type, the argument weight
\* of the sort key is at least its group weight.
C4_ArgWeightCoversGroupWeight ==
    pc = "done" =>
        \A i \in DOMAIN sorted_groups :
            sorted_groups[i].new_key.arg_count >= sorted_groups[i].new_key.sub_count

\* k1 >= k2 in the lexicographic order of (arg_count, inps, sub_count, verb).
C5_KeyGE(k1, k2) ==
    \/ k1.arg_count > k2.arg_count
    \/ /\ k1.arg_count = k2.arg_count
       /\ \/ RoleLT(k2.inps, k1.inps) = "true"
          \/ /\ k1.inps = k2.inps
             /\ \/ k1.sub_count > k2.sub_count
                \/ /\ k1.sub_count = k2.sub_count
                   /\ ~StrLT(k1.verb, k2.verb)

\* C5: the returned groups are in descending lexicographic order of
\* (arg_count, inps, sub_count, verb): each group's sort key is at least the
\* next one's, and a group with a larger argument weight comes before any
\* group with a smaller one, whatever their types.
C5_DescendingOrder ==
    pc = "done" =>
        /\ \A i \in DOMAIN sorted_groups :
              i < Len(sorted_groups) =>
                 C5_KeyGE(sorted_groups[i].new_key, sorted_groups[i + 1].new_key)
        /\ \A i, j \in DOMAIN sorted_groups :
              sorted_groups[i].new_key.arg_count > sorted_groups[j].new_key.arg_count
                 => i < j

\* C5 witness: a call has returned two groups of which the first has the
\* larger argument weight although its role tuple and its type name are the
\* smaller ones.
C5_Witness ==
    /\ pc = "done"
    /\ \E i, j \in DOMAIN sorted_groups :
          /\ i < j
          /\ sorted_groups[i].new_key.arg_count > sorted_groups[j].new_key.arg_count
          /\ RoleLT(sorted_groups[i].new_key.inps, sorted_groups[j].new_key.inps) = "true"
          /\ StrLT(sorted_groups[i].verb, sorted_groups[j].verb)

\* Two returned groups tie on argument weight and role tuple.
C6_SameArgs(i, j) ==
    /\ i # j
    /\ sorted_groups[i].new_key.arg_count = sorted_groups[j].new_key.arg_count
    /\ sorted_groups[i].new_key.inps = sorted_groups[j].new_key.inps

\* C6 as claimed: of two returned groups equal in argument weight and role
\* tuple the one with the higher group weight comes first, and with equal
\* group weights the one whose type name is alphabetically first comes first.
C6_TieBreaks ==
    pc = "done" =>
        \A i, j \in DOMAIN sorted_groups :
            C6_SameArgs(i, j) =>
                /\ sorted_groups[i].new_key.sub_count > sorted_groups[j].new_key.sub_count
                      => i < j
                /\ (/\ sorted_groups[i].new_key.sub_count = sorted_groups[j].new_key.sub_count
                    /\ StrLT(sorted_groups[i].verb, sorted_groups[j].verb))
                      => i < j

\* C6 amended: of two returned groups equal in argument weight and role tuple
\* the one with the higher group weight comes first, and with equal group
\* weights the order is reverse alphabetical by type name (the type name that
\* is alphabetically last comes first).
C6_TieBreaksAmended ==
    pc = "done" =>
        \A i, j \in DOMAIN sorted_groups :
            C6_SameArgs(i, j) =>
                /\ sorted_groups[i].new_key.sub_count > sorted_groups[j].new_key.sub_count
                      => i < j
                /\ (/\ sorted_groups[i].new_key.sub_count = sorted_groups[j].new_key.sub_count
                    /\ StrLT(sorted_groups[j].verb, sorted_groups[i].verb))
                      => i < j

\* C6 witness: a call has returned a Phosphorylation group and a Complex group
\* that tie on argument weight, role tuple and group weight.
C6_Witness ==
    /\ pc = "done"
    /\ \E i, j \in DOMAIN sorted_groups :
          /\ C6_SameArgs(i, j)
          /\ sorted_groups[i].new_key.sub_count = sorted_groups[j].new_key.sub_count
          /\ sorted_groups[i].verb = "Phosphorylation"
          /\ sorted_groups[j].verb = "Complex"

\* C7 as claimed: once a call has ended, the ranking has not failed, and the
\* sort keys of any two groups it had to rank are comparable.
C7_TotalOrder ==
    pc \in {"done", "TypeError"} =>
        /\ pc # "TypeError"
        /\ LET groups == process_rows(stmt_list, stmt_rows, stmt_counts, arg_counts)
           IN \A i, j \in DOMAIN groups :
                 PyLT(groups[i].new_key, groups[j].new_key) # TypeError

\* C8: in each returned group the members are in descending order of
\* weight + 1/(1 + k), k the length of the agent list: a member of higher
\* weight precedes one of lower weight, of two members of equal weight the
\* one with fewer role slots comes first, and members equal in both keep
\* their order in the input list.
C8_MemberOrder ==
    pc = "done" =>
        \A g \in DOMAIN sorted_groups :
            LET members == sorted_groups[g].stmts
            IN \A p, q \in DOMAIN members :
                  p < q =>
                     LET w1 == count(stmt_list[members[p]])
                         w2 == count(stmt_list[members[q]])
                         k1 == Len(agent_list(stmt_list[members[p]]))
                         k2 == Len(agent_list(stmt_list[members[q]]))
                     IN /\ (w1 * (1 + k1) + 1) * (1 + k2) >= (w2 * (1 + k2) + 1) * (1 + k1)
                        /\ w1 >= w2
                        /\ w1 = w2 => k1 <= k2
                        /\ (w1 = w2 /\ k1 = k2) => members[p] < members[q]

\* C8 witness: Complex(A,B,C) and then Complex(A,B), both of weight 2, were
\* given; the group (Complex,A,B) is returned with the 2-member Complex first.
C8_Witness ==
    /\ pc = "done"
    /\ stmt_list = <<ComplexABC(2), ComplexAB(2)>>
    /\ \E i \in GroupsOf(PairKey("A", "B")) : sorted_groups[i].stmts = <<2, 1>>

\* C9: for a Complex with n distinct participant names the generator yields
\* the key (Complex,a,b) of every ordered pair of distinct names exactly when
\* 1 < n < 6, and the full key of the sorted names exactly when n # 2, each
\* once and nothing else: 2 keys for n = 2, n*(n-1) + 1 keys for 2 < n < 6,
\* the full key alone for n < 2 or n >= 6.
C9_ComplexKeys ==
    (pc = "keyed" /\ stmt_list[1].type = "Complex") =>
        LET S == {name(ag) : ag \in Range(stmt_list[1].ags)}
            n == Cardinality(S)
            srt == sorted_names(S)
            full == Key("Complex", [i \in DOMAIN srt |-> PyStr(srt[i])])
            pairs == {PairKey(a, b) : a, b \in S} \ {PairKey(a, a) : a \in S}
            keys == {keyed[i].key : i \in DOMAIN keyed}
        IN /\ keys = (IF 1 < n /\ n < 6 THEN pairs ELSE {})
                        \cup (IF n # 2 THEN {full} ELSE {})
           /\ Len(keyed) = (IF 1 < n /\ n < 6 THEN n * (n - 1) ELSE 0)
                              + (IF n # 2 THEN 1 ELSE 0)
           /\ \A i \in DOMAIN keyed : keyed[i].s = 1

\* C9 witness: the keys of a Complex of 5 distinct names were derived: 20
\* pair keys and the full key.
C9_Witness ==
    /\ pc = "keyed"
    /\ stmt_list[1].type = "Complex"
    /\ Cardinality(Range(stmt_list[1].ags)) = 5
    /\ Len(keyed) = 21

\* The sequence of strings xs in ascending order, every entry kept.
RECURSIVE C10_SortedList(_)
C10_SortedList(xs) ==
    IF xs = <<>> THEN <<>>
    ELSE LET m == CHOOSE i \in DOMAIN xs : \A j \in DOMAIN xs : ~StrLT(xs[j], xs[i])
         IN <<xs[m]>> \o C10_SortedList([i \in 1..(Len(xs) - 1) |->
                                            IF i < m THEN xs[i] ELSE xs[i + 1]])

C10_Names(ags) == [i \in DOMAIN ags |-> name(ags[i])]

\* A Conversion was keyed: its single key with the three entries.
C10_Keyed ==
    /\ pc = "keyed"
    /\ stmt_list[1].type = "Conversion"

\* The key derived for s does not depend on the order in which the inputs and
\* the outputs of s are listed.
C10_OrderIndependent(s) ==
    \A f \in {s.obj_from, Reverse(s.obj_from)}, t \in {s.obj_to, Reverse(s.obj_to)} :
        get_keyed_stmts(Conversion(s.ags[1], f, t, s.ev), <<>>)
            = get_keyed_stmts(s, <<>>)

\* C10 as claimed: the key of a Conversion is (Conversion, controller name,
\* sorted names of the inputs, sorted names of the outputs) with one entry
\* per listed input and output (multisets), whatever the listing order.
C10_ConversionKeyMultiset ==
    C10_Keyed =>
        /\ Len(keyed) = 1
        /\ keyed[1].key =
              Key("Conversion",
                  <<PyStr(name(stmt_list[1].ags[1])),
                    PyTuple(C10_SortedList(C10_Names(stmt_list[1].obj_from))),
                    PyTuple(C10_SortedList(C10_Names(stmt_list[1].obj_to)))>>)
        /\ C10_OrderIndependent(stmt_list[1])

\* The tuple entry lists each name of the agents ags once, in ascending order.
C10_SortedSet(entry, ags) ==
    LET names == Tail(entry)
    IN /\ entry[1] = "t"
       /\ Range(names) = Range(C10_Names(ags))
       /\ \A i, j \in DOMAIN names : i < j => StrLT(names[i], names[j])

\* C10 amended: the key of a Conversion is (Conversion, controller name,
\* sorted tuple of the distinct names of its inputs, sorted tuple of the
\* distinct names of its outputs), inputs and outputs treated as sets of
\* names: each tuple has one entry per distinct name, so two inputs with the
\* same name give one entry, and the key does not depend on the order in
\* which inputs or outputs are listed.
C10_ConversionKeySet ==
    C10_Keyed =>
        /\ Len(keyed) = 1
        /\ keyed[1].key.verb = "Conversion"
        /\ Len(keyed[1].key.inps) = 3
        /\ keyed[1].key.inps[1] = PyStr(name(stmt_list[1].ags[1]))
        /\ C10_SortedSet(keyed[1].key.inps[2], stmt_list[1].obj_from)
        /\ C10_SortedSet(keyed[1].key.inps[3], stmt_list[1].obj_to)
        /\ C10_OrderIndependent(stmt_list[1])

\* C10 witness: a Conversion that lists the input B twice and the outputs in
\* descending order was keyed with one B and the outputs sorted.
C10_Witness ==
    /\ C10_Keyed
    /\ stmt_list[1].obj_from = <<"B", "B">>
    /\ stmt_list[1].obj_to = <<"D", "C">>
    /\ keyed[1].key.inps[2] = PyTuple(<<"B">>)
    /\ keyed[1].key.inps[3] = PyTuple(<<"C", "D">>)

\* Every name set of the input list iterated in ascending order of the names.
C11_AscendingOrders ==
    [i \in DOMAIN stmt_list |-> sorted_names(ag_ns_of(stmt_list[i]))]

\* C11: a call has one possible outcome for its input list and ev_totals:
\* in whatever orders the name sets were iterated, the call ends as it does
\* when every name set is iterated in ascending order, with the same groups
\* in the same order, the same weights and the same member order (or raising
\* alike); and the set of keys derived from a statement is the same for
\* every iteration order and every number of evidences.
C11_Determinism ==
    /\ pc \in {"done", "TypeError"} =>
          LET r == group_and_sort_statements(stmt_list, C11_AscendingOrders)
          IN /\ r.raised = (pc = "TypeError")
             /\ r.list = sorted_groups
    /\ pc = "run" =>
          \A i \in DOMAIN stmt_list :
              \A order \in SetOrders(stmt_list[i]), ev \in {0, 7} :
                  Range(get_keyed_stmts([stmt_list[i] EXCEPT !.ev = ev], order))
                      = Range(get_keyed_stmts(stmt_list[i], C11_AscendingOrders[i]))

\* C11 witness: a call for Complex(A,B,C) and Complex(A,B) has returned after
\* iterating the names of the first in an order that starts with C, so that
\* the dict holds the rows in another order than under ascending iteration.
C11_Witness ==
    /\ pc = "done"
    /\ stmt_list = <<ComplexABC(5), ComplexAB(1)>>
    /\ stmt_rows[1].key.inps[1] = PyStr("C")
    /\ Len(sorted_groups) = 3

\* The types whose statements have one key each.
C12_SingleKeyTypes ==
    {"Conversion", "ActiveForm", "HasActivity", "Phosphorylation", "Activation"}

\* C12: for a statement of a single-key type (default, Conversion,
\* ActiveForm, HasActivity), the statement make_stmt_from_sort_key makes from
\* its key and type has that type and yields exactly that key again, also
\* when the key holds 'None' for an absent agent.
C12_KeyRoundTrip ==
    (pc = "made" /\ stmt_list[1].type \in C12_SingleKeyTypes) =>
        /\ Len(simple_stmts) = 1
        /\ simple_stmts[1].type = stmt_list[1].type
        /\ \A order \in SetOrders(simple_stmts[1]) :
              get_keyed_stmts(simple_stmts[1], order) = <<keyed[1].key>>

\* C12 witness: a Conversion without controller was keyed with 'None', and
\* the statement made from the key has no controller and the two inputs.
C12_Witness ==
    /\ pc = "made"
    /\ stmt_list[1] = Conversion(NoAgent, <<"C", "B">>, <<"D">>, 1)
    /\ keyed[1].key.inps[1] = PyStr("None")
    /\ simple_stmts[1] = Conversion(NoAgent, <<"B", "C">>, <<"D">>, 0)

\* The type tags of the variants of the key deriver: symmetric, conversion,
\* attribute-valued, and the default types of one or two roles.
C13_SupportedTypes ==
    {"Complex", "Conversion", "ActiveForm", "HasActivity", "Phosphorylation",
     "Activation"}

\* C13 as claimed: a statement whose type tag is not among the supported
\* variants makes the key deriver fail: it is never keyed, and no statement
\* is made from a key of its type.
C13_UnsupportedTypeFails ==
    (pc \in {"keyed", "made"}) =>
        /\ stmt_list[1].type \in C13_SupportedTypes
        /\ \A i \in DOMAIN keyed : keyed[i].key.verb \in C13_SupportedTypes
        /\ \A i \in DOMAIN simple_stmts : simple_stmts[i].type \in C13_SupportedTypes

\* weight(s): ev_totals[fingerprint(s)] when ev_totals is supplied and holds
\* the fingerprint, the number of evidences of s otherwise.
C14_weight(s) ==
    IF ev_totals.given /\ get_hash(s) \in DOMAIN ev_totals.map
    THEN ev_totals.map[get_hash(s)]
    ELSE s.ev

RECURSIVE C14_Sum(_)
C14_Sum(members) ==
    IF members = <<>> THEN 0
    ELSE C14_weight(stmt_list[Head(members)]) + C14_Sum(Tail(members))

\* Some statement of the input list has no entry in the supplied ev_totals.
C14_FingerprintMissing ==
    /\ ev_totals.given
    /\ \E i \in DOMAIN stmt_list : get_hash(stmt_list[i]) \notin DOMAIN ev_totals.map

\* C14: the group weight in the sort key of every returned group is the sum
\* of weight(s) over the statements of its member list, and a call whose
\* ev_totals lacks the fingerprint of a statement does not fail.
C14_GroupWeight ==
    /\ pc = "done" =>
          \A g \in DOMAIN sorted_groups :
              sorted_groups[g].new_key.sub_count = C14_Sum(sorted_groups[g].stmts)
    /\ C14_FingerprintMissing => pc # "TypeError"

\* C14 witness: a call with ev_totals = {fingerprint of Complex(A,B,C): 4}
\* for Complex(A,B) with 1 evidence and Complex(A,B,C) with 5 has returned
\* the group (Complex,A,B) with group weight 1 + 4.
C14_Witness ==
    /\ pc = "done"
    /\ stmt_list = <<ComplexAB(1), ComplexABC(5)>>
    /\ ev_totals = Totals(get_hash(ComplexABC(5)) :> 4)
    /\ OnceWithGroupWeight(PairKey("A", "B"), 5)

\* The names of the agents of the input lists of Spec, 'None' for an absent
\* agent.
C15_Names == {"A", "B", "C", "D", "None"}

\* Some statement of the input list relates a and b directly: a Complex with
\* exactly the participant names {a, b}, a statement of another type with
\* the role tuple (a, b), or a Conversion with controller a and b among its
\* inputs or outputs.
C15_Direct(a, b) ==
    \E i \in DOMAIN stmt_list :
        LET s == stmt_list[i]
        IN \/ s.type = "Complex" /\ ag_ns_of(s) = {a, b}
           \/ /\ s.type # "Complex"
              /\ get_keyed_stmts(s, <<>>)[1].inps = <<PyStr(a), PyStr(b)>>
           \/ /\ s.type = "Conversion"
              /\ name(s.ags[1]) = a
              /\ b \in {name(ag) : ag \in Range(s.obj_from \o s.obj_to)}

\* C15: when no statement of the input list relates a and b directly (they
\* occur together at most inside Complexes of more than 2 participant
\* names), the returned list holds no group (Complex, a, b).
C15_NoSpuriousPair ==
    pc = "done" =>
        \A a, b \in C15_Names :
            (a # b /\ ~C15_Direct(a, b)) => ~InOutput(PairKey(a, b))

\* C15 witness: a call for Complex(A,B,C) and Phosphorylation(A,B) has
\* returned: the pairs of C and the pair (B,A) occur only inside the
\* 3-member Complex and have no group, the pair (A,B) has one.
C15_Witness ==
    /\ pc = "done"
    /\ stmt_list = <<ComplexABC(5), Phosphorylation("A", "B", 2)>>
    /\ ~C15_Direct("B", "A") /\ ~InOutput(PairKey("B", "A"))
    /\ ~C15_Direct("A", "C") /\ ~InOutput(PairKey("A", "C"))
    /\ C15_Direct("A", "B") /\ InOutput(PairKey("A", "B"))

\* The step is a call of the transformation f.
C16_CallOf(f) == last'.f = f /\ corpus' = last'.stmts_out /\ corpus = last'.stmts_in

C19_RoleFillers(stmt) == { i \in DOMAIN stmt.agents : stmt.agents[i].name # NoAgent }

\* The step is a call of a transformation.
C17_Call == last'.f # "" /\ C16_CallOf(last'.f)

\* The fields belief, supports and supported_by of a statement.
C17_Fields(stmt) == <<stmt.belief, stmt.supports, stmt.supported_by>>

\* C17 as stated: no transformation changes the belief, supports or
\* supported_by of a statement of its input.
C17_FieldsUnchanged ==
    [][C17_Call => \A id \in Range(corpus) : C17_Fields(heap'[id]) = C17_Fields(heap[id])]_vars

\* C17: of filter_belief, filter_grounded_only, filter_inconsequential_mods
\* and strip_agent_context, none changes the belief of a statement that
\* exists when it is called.  filter_belief replaces, in the statements it
\* returns, supports and supported_by by their members of belief not below
\* the cutoff, in order, and leaves those of every other statement; the
\* other three leave supports and supported_by of every statement.
\* strip_agent_context changes no statement at all: what it returns are new
\* objects, one for each statement of its input in order, with the belief of
\* the original, no modification conditions and no bound partners, linked
\* to new objects only.
C17_HierarchyFields ==
    [][C17_Call =>
          LET f == last'.f
              cutoff == last'.kwargs.belief_cutoff
              pruned(links) == SelectSeq(links, LAMBDA st : heap[st].belief >= cutoff)
          IN /\ DOMAIN heap \subseteq DOMAIN heap'
             /\ \A id \in DOMAIN heap :
                   /\ heap'[id].belief = heap[id].belief
                   /\ IF f = "filter_belief" /\ id \in Range(corpus')
                      THEN /\ heap'[id].supports = pruned(heap[id].supports)
                           /\ heap'[id].supported_by = pruned(heap[id].supported_by)
                      ELSE C17_Fields(heap'[id]) = C17_Fields(heap[id])
             /\ f = "strip_agent_context" =>
                   /\ \A id \in DOMAIN heap : heap'[id] = heap[id]
                   /\ Len(corpus') = Len(corpus)
                   /\ \A k \in DOMAIN corpus :
                         LET new_st == heap'[corpus'[k]]
                         IN /\ corpus'[k] \notin DOMAIN heap
                            /\ new_st.belief = heap[corpus[k]].belief
                            /\ \A i \in C19_RoleFillers(new_st) :
                                  /\ new_st.agents[i].mods = <<>>
                                  /\ new_st.agents[i].bound_conditions = <<>>
                            /\ (Range(new_st.supports) \cup Range(new_st.supported_by))
                                  \cap DOMAIN heap = {}
      ]_vars

\* C17 witness: strip_agent_context has been called on a list with a
\* statement a whose supports filter_belief had pruned before (the dropped
\* statement b still lists a in supported_by, a no longer lists b), and has
\* returned new objects.
C17_Witness ==
    /\ last.f = "strip_agent_context"
    /\ corpus # <<>>
    /\ \E a \in Range(last.stmts_in), b \in DOMAIN heap :
          /\ a \in Range(heap[b].supported_by)
          /\ b \notin Range(heap[a].supports)
          /\ heap[b].belief < heap[a].belief

\* The filters C18 names.
C18_Filters == {"filter_inconsequential_mods", "filter_belief", "filter_grounded_only"}

\* C18: a filter called a second time, on the list its first call returned
\* and with the same options (the same whitelist value), returns that list.
C18_Idempotence ==
    [][(/\ C17_Call
        /\ last'.f \in C18_Filters
        /\ last.f = last'.f
        /\ last.kwargs = last'.kwargs
        /\ corpus = last.stmts_out)
       => corpus' = corpus]_vars

\* The step is a call of filter_grounded_only with remove_bound=True.
C19_CallWithRemoveBound ==
    /\ C16_CallOf("filter_grounded_only")
    /\ last'.kwargs.remove_bound

\* C19 as stated: filter_grounded_only called with remove_bound=True
\* returns as many statements as it was given, never dropping a statement.
C19_CountUnchanged ==
    [][C19_CallWithRemoveBound => Len(corpus') = Len(corpus)]_vars

\* C19: filter_grounded_only called with remove_bound=True returns, in input
\* order, exactly the statements of its input all of whose role fillers are
\* themselves grounded (under the score threshold, if one is given): it
\* drops a statement with an ungrounded role filler and never drops one for
\* an ungrounded bound partner.  In every statement it returns, the bound
\* partners of each role filler are afterwards the grounded ones of before,
\* in order; in a statement of the input it drops, the bound partners of a
\* role filler are as before or the grounded ones of before; and nothing
\* else of any statement changes.
C19_RemoveBound ==
    [][C19_CallWithRemoveBound =>
          LET threshold == last'.kwargs.score_threshold
              grounded(agent) == agent_is_grounded(agent, threshold)
              kept(agent) == SelectSeq(agent.bound_conditions, grounded)
          IN /\ corpus' = SelectSeq(corpus, LAMBDA id :
                              \A i \in C19_RoleFillers(heap[id]) :
                                  grounded(heap[id].agents[i]))
             /\ DOMAIN heap' = DOMAIN heap
             /\ \A id \in DOMAIN heap :
                   /\ DOMAIN heap'[id].agents = DOMAIN heap[id].agents
                   /\ heap'[id] = [heap[id] EXCEPT !.agents =
                          [i \in DOMAIN @ |->
                              [@[i] EXCEPT !.bound_conditions =
                                  heap'[id].agents[i].bound_conditions]]]
                   /\ \A i \in DOMAIN heap[id].agents :
                         LET before == heap[id].agents[i]
                             after == heap'[id].agents[i].bound_conditions
                         IN IF id \in Range(corpus') /\ i \in C19_RoleFillers(heap[id])
                            THEN after = kept(before)
                            ELSE after \in {before.bound_conditions, kept(before)}
      ]_vars

\* C19 witness: filter_grounded_only with remove_bound=True has dropped a
\* statement of its input and returned another of which it has removed a
\* bound partner (the statement is no longer one of those the list was made
\* of).
C19_Witness ==
    /\ last.f = "filter_grounded_only"
    /\ last.kwargs.remove_bound
    /\ Len(last.stmts_out) < Len(last.stmts_in)
    /\ \E k \in DOMAIN last.stmts_out : heap[last.stmts_out[k]] \notin GroundedUniverse

\* C20: with score_threshold given, filter_grounded_only filters out a
\* statement all of whose role fillers are grounded (and have no bound
\* partners) exactly when some role filler has a non-empty list of scored
\* groundings whose highest score is below the threshold.
C20_ScoreThreshold ==
    [][(C16_CallOf("filter_grounded_only") /\ last'.kwargs.score_threshold # 0) =>
          LET threshold == last'.kwargs.score_threshold
              fillers(id) == { heap[id].agents[i] : i \in C19_RoleFillers(heap[id]) }
              low(agent) ==
                  \E db_name \in DOMAIN agent.db_refs :
                      LET val == agent.db_refs[db_name]
                      IN /\ val.type = "list"
                         /\ val.list # <<>>
                         /\ high_score(val.list) < threshold
          IN \A id \in Range(corpus) :
                (\A agent \in fillers(id) :
                     /\ agent_is_grounded(agent, 0)
                     /\ agent.bound_conditions = <<>>)
                => ((id \notin Range(corpus')) <=> (\E agent \in fillers(id) : low(agent)))
      ]_vars

\* C21: filter_inconsequential_mods drops a Modification exactly when its
\* site, for the name of its substrate, is neither in the whitelist for that
\* name nor a modification condition of an agent of that name in another
\* statement of the list; it keeps every other statement, in input order.
C21_ExactDrop ==
    [][C16_CallOf("filter_inconsequential_mods") =>
          LET whitelist == last'.kwargs.whitelist
              site(stmt) == <<mod_type_of(stmt.type), stmt.site[1], stmt.site[2]>>
              listed(stmt) ==
                  /\ whitelist.given
                  /\ stmt.agents[2].name \in DOMAIN whitelist.map
                  /\ site(stmt) \in Range(whitelist.map[stmt.agents[2].name])
              mentioned(k) ==
                  \E j \in (DOMAIN corpus) \ {k} :
                      \E agent \in Range(heap[corpus[j]].agents) :
                          /\ agent.name = heap[corpus[k]].agents[2].name
                          /\ site(heap[corpus[k]]) \in Range(agent.mods)
              kept == { k \in DOMAIN corpus :
                          ~(/\ heap[corpus[k]].type \in Modifications
                            /\ ~listed(heap[corpus[k]])
                            /\ ~mentioned(k)) }
          IN corpus' = [i \in 1..Cardinality(kept) |-> corpus[ascending(kept)[i]]]
      ]_vars

\* C22: filter_inconsequential_mods leaves the whitelist dict of its caller,
\* its keys and the lists it holds, as it was before the call.
C22_WhitelistUnchanged ==
    [][C16_CallOf("filter_inconsequential_mods") => caller_whitelist' = caller_whitelist]_vars

\* The step is a call of the filter f on the list the pipeline holds,
\* whatever its outcome.
C23_Called(f) == last'.f = f /\ last'.stmts_in = corpus

\* C23: called with a policy it does not know, a filter by gene list, by
\* concept names or by db_refs fails, or returns its input: the same
\* statements in the same order, none of them changed.
C23_UnknownPolicy ==
    [][(/\ \E f \in {"filter_gene_list", "filter_concept_names", "filter_by_db_refs"} :
              C23_Called(f)
        /\ last'.kwargs.policy \notin {"one", "all"})
       => \/ pc' \notin {"pipeline", "None"}
          \/ pc' = "pipeline" /\ corpus' = corpus /\ heap' = heap]_vars

\* What the filter f returns for the list the pipeline holds, with the
\* options o and the invert given.
C24_Result(f, o, invert) ==
    CASE f = "filter_by_type" ->
             filter_by_type(heap, corpus, o.stmt_type, invert).stmts_out
      [] f = "filter_gene_list" ->
             filter_gene_list(heap, corpus, <<"A">>, o.policy, FALSE, invert).stmts_out
      [] f = "filter_concept_names" ->
             filter_concept_names(heap, corpus, <<"A">>, o.policy, invert).stmts_out
      [] f = "filter_by_db_refs" ->
             filter_by_db_refs(heap, corpus, "HGNC", <<"1">>, o.policy, invert).stmts_out

\* C24: for a filter with an invert option called with a valid policy (and
\* without remove_bound), every statement of the input is in exactly one of
\* the results with invert=False and with invert=True, and both results
\* keep the order of the input.
C24_InvertComplement ==
    [][(/\ \E f \in {"filter_by_type", "filter_gene_list", "filter_concept_names",
                     "filter_by_db_refs"} : C23_Called(f)
        /\ last'.f = "filter_by_type" \/ last'.kwargs.policy \in {"one", "all"}
        /\ ~last'.kwargs.remove_bound
        /\ pc' = "pipeline")
       => LET plain == C24_Result(last'.f, last'.kwargs, FALSE)
              inverted == C24_Result(last'.f, last'.kwargs, TRUE)
          IN /\ corpus' = IF last'.kwargs.invert THEN inverted ELSE plain
             /\ \A id \in Range(corpus) : (id \in Range(plain)) # (id \in Range(inverted))
             /\ plain = SelectSeq(corpus, LAMBDA id : id \in Range(plain))
             /\ inverted = SelectSeq(corpus, LAMBDA id : id \in Range(inverted))]_vars

\* C25 as stated: filter_by_type keeps without invert exactly the
\* statements whose type is the requested type itself, and with invert the
\* others.
C25_ExactType ==
    [][(C23_Called("filter_by_type") /\ pc' = "pipeline") =>
          corpus' = SelectSeq(corpus, LAMBDA id :
                        (heap[id].type = last'.kwargs.stmt_type) # last'.kwargs.invert)]_vars

\* C25: filter_by_type keeps without invert exactly the statements that are
\* instances of the requested type, those of the type itself and those of a
\* more specific variant of it (a Phosphorylation when Modification is
\* requested), and with invert exactly the others; order is kept and no
\* statement is changed.
C25_InstanceOfType ==
    [][(C23_Called("filter_by_type") /\ pc' = "pipeline") =>
          LET stmt_type == last'.kwargs.stmt_type
              variants == IF stmt_type = "Modification"
                          THEN {"Modification", "Phosphorylation", "Dephosphorylation"}
                          ELSE {stmt_type}
          IN /\ corpus' = SelectSeq(corpus, LAMBDA id :
                              (heap[id].type \in variants) # last'.kwargs.invert)
             /\ heap' = heap]_vars

\* C25 witness: filter_by_type has been called for Modification, without
\* invert, on a list with a Phosphorylation and an Activation, and has
\* returned the Phosphorylation alone.
C25_Witness ==
    /\ pc = "pipeline"
    /\ last.f = "filter_by_type"
    /\ last.kwargs.stmt_type = "Modification"
    /\ ~last.kwargs.invert
    /\ \E id \in Range(last.stmts_in) : heap[id].type = "Activation"
    /\ corpus # <<>>
    /\ \A id \in Range(corpus) : heap[id].type = "Phosphorylation"

\* C26: a transformation called with save returns its result list to the
\* caller whether or not the write succeeds, and when the file is written it
\* holds the list returned.
C26_WriteFailure ==
    [][(last'.f # "" /\ C23_Called(last'.f) /\ last'.kwargs.save) =>
          /\ pc' = "pipeline"
          /\ corpus' = last'.stmts_out
          /\ pickle_file'.written =>
                pickle_file'.stmts = [i \in DOMAIN corpus' |-> heap'[corpus'[i]]]]_vars

\* C27: when group_and_sort_statements returns, every statement of the input
\* list (every position of it) is a member of at least one returned group,
\* and no group lists the same input position twice: a statement is twice in
\* a group only if it is twice in the input.
C27_MembersCovered ==
    pc = "done" =>
        /\ \A s \in DOMAIN stmt_list :
              \E g \in DOMAIN sorted_groups : s \in Range(sorted_groups[g].stmts)
        /\ \A g \in DOMAIN sorted_groups :
              \A i, j \in DOMAIN sorted_groups[g].stmts :
                  sorted_groups[g].stmts[i] = sorted_groups[g].stmts[j] => i = j

\* C27 witness: the call has returned for a list with a Complex of three
\* names whose derived pair groups were all suppressed, and the Complex is a
\* member of the group of its full key.
C27_Witness ==
    /\ pc = "done"
    /\ \E s \in DOMAIN stmt_list :
          /\ stmt_list[s].type = "Complex"
          /\ n_names(stmt_list[s]) = 3
          /\ \A g \in DOMAIN sorted_groups :
                s \in Range(sorted_groups[g].stmts) =>
                    Len(sorted_groups[g].new_key.inps) = 3
          /\ \E g \in DOMAIN sorted_groups : s \in Range(sorted_groups[g].stmts)

\* The participant names a grouping key holds.
C28_KeyNames(key) ==
    IF key.verb = "Conversion"
    THEN {key.inps[1][2]}
         \cup {key.inps[2][i] : i \in 2..Len(key.inps[2])}
         \cup {key.inps[3][i] : i \in 2..Len(key.inps[3])}
    ELSE IF key.verb \in {"ActiveForm", "HasActivity"}
    THEN {key.inps[1][2]}
    ELSE {key.inps[i][2] : i \in DOMAIN key.inps}

\* C28: get_simplified_stmts returns one statement for each (key, statement)
\* pair derived from its input, in order, each of the type of the statement
\* the key was derived from and with participants whose names are exactly
\* the names of the key.
C28_Simplified ==
    pc \in {"simplified", "IndexError"} =>
        /\ pc = "simplified"
        /\ Len(simple_stmts) = Len(keyed)
        /\ \A i \in DOMAIN keyed :
              /\ simple_stmts[i].type = stmt_list[keyed[i].s].type
              /\ {name(ag) : ag \in Range(agent_list(simple_stmts[i]))
                                    \cup Range(simple_stmts[i].obj_from)
                                    \cup Range(simple_stmts[i].obj_to)}
                   = C28_KeyNames(keyed[i].key)

\* C29: align_statements returns tuples in which every element of stmts1 is
\* the first component exactly once and every element of stmts2 is the
\* second component at least once, paired with an element of the same key
\* of the other list or with None.
C29_Alignment ==
    pc = "aligned" =>
        /\ \A i \in DOMAIN stmts1 :
              Cardinality({k \in DOMAIN matches : matches[k][1] = i}) = 1
        /\ \A j \in DOMAIN stmts2 : \E k \in DOMAIN matches : matches[k][2] = j
        /\ \A k \in DOMAIN matches :
              (matches[k][1] # 0 /\ matches[k][2] # 0) =>
                  name_keyfun(stmts1[matches[k][1]]) = name_keyfun(stmts2[matches[k][2]])

\* Two spans share a character of the text.
C30_Overlap(t1, t2) == t1.start_ix < t2.end_ix /\ t2.start_ix < t1.end_ix

\* C30: the spans tag_text tags are pairwise non-overlapping, and of every
\* set of spans of the list given that overlap each other and no other span
\* of the list (identical spans included), a longest one is kept and tagged.
C30_LongestKept ==
    [][(pc = "tag" /\ pc' = "tagged") =>
          /\ \A i, j \in DOMAIN tag_info_list' :
                i # j => ~C30_Overlap(tag_info_list'[i], tag_info_list'[j])
          /\ \A S \in (SUBSET DOMAIN tag_info_list) \ {{}} :
                (/\ \A i, j \in S : C30_Overlap(tag_info_list[i], tag_info_list[j])
                 /\ \A i \in S : \A j \in (DOMAIN tag_info_list) \ S :
                        ~C30_Overlap(tag_info_list[i], tag_info_list[j]))
                => \E i \in S :
                      /\ \A j \in S :
                            tag_info_list[j].end_ix - tag_info_list[j].start_ix
                               <= tag_info_list[i].end_ix - tag_info_list[i].start_ix
                      /\ tag_info_list[i] \in Range(tag_info_list')
                      /\ <<"start", tag_info_list[i].tag>> \in Range(format_text')
      ]_vars

====
